---------------------------- MODULE Spec2Model ----------------------------
(***************************************************************************)
(* Model of the Balatro scoring engine and play/discard optimizer          *)
(* (poker_ai/game_state.py, poker_ai/optimizer.py).                        *)
(*                                                                         *)
(* Cards are records; a list of card objects is a sequence of cards, and   *)
(* a list of objects taken out of another list (scoring cards, a play, a   *)
(* discard) is the sequence of their positions in that list, which keeps   *)
(* Python's object identity apart from Card.__eq__.                        *)
(* Floats that the code multiplies by 1.5, 2, 3, 4 or divides by 44 are    *)
(* exact rationals here: records [n |-> numerator, d |-> denominator].     *)
(***************************************************************************)
EXTENDS Integers, Sequences, FiniteSets, TLC

VARIABLES
    played,     \* the card list handed to HandEvaluator (cards argument)
    gs,         \* heap: "caller" |-> the caller's GameState, "sim" |-> the simulation copy
    call,       \* the last operation called, with its arguments
    ret,        \* what the last call that ended returned or raised
    pc,         \* position inside calculate_strategy: idle, loop, done
    simRef,     \* which heap object sim_state refers to
    strategy,   \* the Strategy under construction in calculate_strategy
    total_score \* local total_score of calculate_strategy

vars == <<played, gs, call, ret, pc, simRef, strategy, total_score>>

-----------------------------------------------------------------------------
(* Bounds of the model *)

\* longest card list handed to the evaluator under SpecHand
MaxCards == 6

\* longest hand of a GameState under SpecPlay
MaxHand == 6

\* largest top_n handed to find_all_plays
MaxTopN == 3

\* largest hands_remaining and discards_remaining of a GameState under Spec
MaxHandsRemaining == 2

MaxDiscardsRemaining == 1

\* the most distinct ranks in a rank list handed to _is_straight
MaxRanks == 6

\* the most cards of one play handed to calculate_score
MaxPlayed == 5

\* the most cards of a hand handed to analyze_potential_hands ("max 8")
MaxDealt == 8

\* the longest token handed to parse_card
MaxToken == 3

\* the most captures handed to one BalatroVisionSystem
MaxCaptures == 4

-----------------------------------------------------------------------------
(* Generic helpers *)

\* a Python list: its elements are computed once, when it is built
List(f) == f \o <<>>

\* x = e, then F(x): an assignment, e is computed once
With(e, F(_)) == CHOOSE r \in {F(x) : x \in {e}} : TRUE

Min(a, b) == IF a <= b THEN a ELSE b

Max(a, b) == IF a >= b THEN a ELSE b

\* a slice that forgets its cap
TakeUncapped(s, k) == s

\* Python slice s[:k]
Take(s, k) == SubSeq(s, 1, Min(k, Len(s)))

\* positions 1..n as a list
Idx(n) == List([i \in 1..n |-> i])

\* the objects at positions idx of list s
At(s, idx) == List([k \in 1..Len(idx) |-> s[idx[k]]])

Range(s) == {s[i] : i \in 1..Len(s)}

RECURSIVE SumSeq(_)
SumSeq(s) == IF s = <<>> THEN 0 ELSE s[1] + With(Tail(s), LAMBDA rest : SumSeq(rest))

\* sorted(set) ascending
RECURSIVE SortedSet(_)
SortedSet(S) ==
    IF S = {} THEN <<>>
    ELSE With(CHOOSE x \in S : \A y \in S : x <= y, LAMBDA m :
         With(S \ {m}, LAMBDA rest : <<m>> \o SortedSet(rest)))

\* rationals
Rat(n, d) == [n |-> n, d |-> d]

\* a < b for non-negative rationals: whole parts first, then the fractions,
\* which keeps the products small
RatLess(a, b) ==
    LET qa == a.n \div a.d
        qb == b.n \div b.d
    IN  IF qa # qb THEN qa < qb
        ELSE (a.n % a.d) * b.d < (b.n % b.d) * a.d

RatLeq(a, b) == ~RatLess(b, a)

RECURSIVE Gcd(_, _)
Gcd(a, b) == IF b = 0 THEN a ELSE With(a % b, LAMBDA r : Gcd(b, r))

\* the same rational in lowest terms
RatNorm(a) == With(Gcd(a.n, a.d), LAMBDA g : [n |-> a.n \div g, d |-> a.d \div g])

RECURSIVE Pow(_, _)
Pow(b, e) == IF e = 0 THEN 1 ELSE b * Pow(b, e - 1)

\* Python slice s[:k], k of either sign
PySlice(s, k) == IF k >= 0 THEN SubSeq(s, 1, IF k <= Len(s) THEN k ELSE Len(s))
                 ELSE SubSeq(s, 1, IF Len(s) + k >= 0 THEN Len(s) + k ELSE 0)

RatMul(a, b) == Rat(a.n * b.n, a.d * b.d)

\* a rounding up in place of int(x)
RatCeil(a) == (a.n + a.d - 1) \div a.d

\* int(x) of a non-negative rational
RatFloor(a) == a.n \div a.d

\* the place of items[i] after a descending sort that puts an item before
\* the earlier items of equal key
ReversingPlace(items, i) ==
    1 + Cardinality({j \in 1..Len(items) :
            \/ RatLess(items[i].key, items[j].key)
            \/ j > i /\ ~RatLess(items[j].key, items[i].key)})

\* the place of items[i] after list.sort(key=..., reverse=True), which is
\* stable: after every item of larger key and the earlier items of equal key
StablePlace(items, i) ==
    1 + Cardinality({j \in 1..Len(items) :
            \/ RatLess(items[i].key, items[j].key)
            \/ j < i /\ ~RatLess(items[j].key, items[i].key)})

\* list.sort(key=..., reverse=True). Items are records with a rational
\* field key.
StableSortDesc(items) ==
    With(items, LAMBDA v :
    With(List([i \in 1..Len(v) |-> StablePlace(v, i)]), LAMBDA place :
        List([p \in 1..Len(v) |-> v[CHOOSE i \in 1..Len(v) : place[i] = p]])))

\* list.sort(key=...): stable, ascending
RECURSIVE InsertAsc(_, _)
InsertAsc(sorted, x) ==
    IF sorted = <<>> THEN <<x>>
    ELSE IF RatLess(x.key, Head(sorted).key)
         THEN <<x>> \o sorted
         ELSE <<Head(sorted)>> \o With(Tail(sorted), LAMBDA rest : InsertAsc(rest, x))

RECURSIVE SortAscFrom(_, _)
SortAscFrom(done, rest) ==
    IF rest = <<>> THEN done
    ELSE With(InsertAsc(done, Head(rest)), LAMBDA next : SortAscFrom(next, Tail(rest)))

StableSortAsc(items) == SortAscFrom(<<>>, items)

-----------------------------------------------------------------------------
(* game_state.py: enumerations and the card *)

Suit == {"H", "D", "C", "S"}

Enhancement == {"NONE", "BONUS", "MULT", "WILD", "GLASS", "STEEL", "STONE", "GOLD", "LUCKY"}

Edition == {"NONE", "FOIL", "HOLOGRAPHIC", "POLYCHROME", "NEGATIVE"}

\* HandType, in declaration order
HandTypeOrder ==
    << "HIGH_CARD", "PAIR", "TWO_PAIR", "THREE_OF_A_KIND", "STRAIGHT", "FLUSH",
       "FULL_HOUSE", "FOUR_OF_A_KIND", "STRAIGHT_FLUSH", "ROYAL_FLUSH",
       "FIVE_OF_A_KIND", "FLUSH_HOUSE", "FLUSH_FIVE" >>

HandType == Range(HandTypeOrder)

\* Card(rank, suit, enhancement, edition); the seal is carried but never read
\* by the evaluator or the optimizer and is left out.
Card(r, s, enh, ed) == [rank |-> r, suit |-> s, enhancement |-> enh, edition |-> ed]

Plain(r, s) == Card(r, s, "NONE", "NONE")

\* Card.__eq__: rank, suit and enhancement; the edition is not compared
CardEq(a, b) ==
    /\ a.rank = b.rank
    /\ a.suit = b.suit
    /\ a.enhancement = b.enhancement

\* card in cards
CardIn(c, cards) == \E i \in 1..Len(cards) : CardEq(cards[i], c)

-----------------------------------------------------------------------------
(* HandEvaluator._is_straight *)

\* a straight test that lets the ace join both ends at once (Q-K-A-2-3)
is_straight_wrapping(ranks) ==
    LET unique == Range(ranks)
    IN  \E lo \in 2..14 :
            \A k \in 0..4 : (IF lo + k > 14 THEN lo + k - 13 ELSE lo + k) \in unique

is_straight(ranks) ==
    LET unique == SortedSet(Range(ranks))
    IN  IF Len(unique) < 5 THEN FALSE
        ELSE \/ \E i \in 1..(Len(unique) - 4) : unique[i + 4] - unique[i] = 4
             \/ {2, 3, 4, 5, 14} \subseteq Range(unique)

-----------------------------------------------------------------------------
(* HandEvaluator.get_hand_type *)

\* ranks = [c.rank for c in cards]: every card, Stone cards included
RanksOf(cards) == List([i \in 1..Len(cards) |-> cards[i].rank])

\* rank_counts = Counter(ranks): rank_counts[r]
RankCount(cards, r) == Cardinality({i \in 1..Len(cards) : cards[i].rank = r})

\* the keys of rank_counts, in insertion (first occurrence) order
RankKeys(cards) ==
    LET first == SelectSeq(Idx(Len(cards)),
                     LAMBDA i : \A j \in 1..(i - 1) : cards[j].rank # cards[i].rank)
    IN  List([k \in 1..Len(first) |-> cards[first[k]].rank])

\* suit_counts[s]: cards that are neither Wild nor Stone
SuitCount(cards, s) ==
    Cardinality({i \in 1..Len(cards) :
        /\ cards[i].enhancement \notin {"WILD", "STONE"}
        /\ cards[i].suit = s})

\* wild_count = suits.count("WILD")
WildCount(cards) == Cardinality({i \in 1..Len(cards) : cards[i].enhancement = "WILD"})

\* sorted(rank_counts.values(), reverse=True)
SortedCounts(cards) ==
    LET keys == RankKeys(cards)
        items == List([k \in 1..Len(keys) |->
                    [key |-> Rat(RankCount(cards, keys[k]), 1)]])
        sorted == StableSortDesc(items)
    IN  List([k \in 1..Len(sorted) |-> sorted[k].key.n])

\* a flush test that forgets the Wild cards
IsFlushWithoutWild(cards) ==
    /\ Len(cards) >= 5
    /\ \E s \in Suit : SuitCount(cards, s) >= 5

IsFlush(cards) ==
    /\ Len(cards) >= 5
    /\ \/ \E s \in Suit : SuitCount(cards, s) > 0
                          /\ SuitCount(cards, s) + WildCount(cards) >= 5
       \/ WildCount(cards) >= 5

\* [r for r, c in rank_counts.items() if c >= n and r != excl][0]
FirstRankWith(cards, n, excl) ==
    LET keys == SelectSeq(RankKeys(cards),
                    LAMBDA r : RankCount(cards, r) >= n /\ r # excl)
    IN  keys[1]

\* [c for c in cards if c.rank == r], as positions
OfRank(cards, r) == SelectSeq(Idx(Len(cards)), LAMBDA i : cards[i].rank = r)

\* pairs = [r for r, c in rank_counts.items() if c >= 2]
PairRanks(cards) == SelectSeq(RankKeys(cards), LAMBDA r : RankCount(cards, r) >= 2)

\* sorted(pairs, reverse=True)[:2]
TopTwoPairRanks(cards) ==
    LET asc == SortedSet(Range(PairRanks(cards)))
        n == Len(asc)
    IN  <<asc[n], asc[n - 1]>>

\* max(cards, key=lambda c: c.rank): the first card of the highest rank
MaxRankCard(cards) ==
    CHOOSE i \in 1..Len(cards) :
        /\ \A j \in 1..Len(cards) : cards[j].rank <= cards[i].rank
        /\ \A j \in 1..(i - 1) : cards[j].rank < cards[i].rank

HT(t, scoring) == [hand_type |-> t, scoring |-> scoring]

get_hand_type(cards) ==
    LET n == Len(cards)
        ranks == RanksOf(cards)
        sorted_counts == SortedCounts(cards)
        flush == IsFlush(cards)
        straight == is_straight(ranks)
        pairs == PairRanks(cards)
    IN  IF n = 0 THEN HT("HIGH_CARD", <<>>)
        ELSE IF n >= 5 /\ flush /\ sorted_counts[1] >= 5
        THEN HT("FLUSH_FIVE",
                Take(SelectSeq(Idx(n), LAMBDA i : RankCount(cards, cards[i].rank) >= 5), 5))
        ELSE IF n >= 5 /\ flush /\ Take(sorted_counts, 2) = <<3, 2>>
        THEN HT("FLUSH_HOUSE", Take(Idx(n), 5))
        ELSE IF n >= 5 /\ sorted_counts[1] >= 5
        THEN HT("FIVE_OF_A_KIND", Take(OfRank(cards, FirstRankWith(cards, 5, 0)), 5))
        ELSE IF n >= 5 /\ flush /\ straight
        THEN LET sorted_ranks == SortedSet(Range(ranks))
                 m == Len(sorted_ranks)
             IN  IF SubSeq(sorted_ranks, m - 4, m) = <<10, 11, 12, 13, 14>>
                 THEN HT("ROYAL_FLUSH", Take(Idx(n), 5))
                 ELSE HT("STRAIGHT_FLUSH", Take(Idx(n), 5))
        ELSE IF sorted_counts[1] >= 4
        THEN HT("FOUR_OF_A_KIND", Take(OfRank(cards, FirstRankWith(cards, 4, 0)), 4))
        ELSE IF Len(sorted_counts) >= 2 /\ sorted_counts[1] >= 3 /\ sorted_counts[2] >= 2
        THEN LET three_rank == FirstRankWith(cards, 3, 0)
                 pair_rank == FirstRankWith(cards, 2, three_rank)
             IN  HT("FULL_HOUSE",
                    Take(OfRank(cards, three_rank), 3) \o Take(OfRank(cards, pair_rank), 2))
        ELSE IF flush THEN HT("FLUSH", Take(Idx(n), 5))
        ELSE IF straight THEN HT("STRAIGHT", Take(Idx(n), 5))
        ELSE IF sorted_counts[1] >= 3
        THEN HT("THREE_OF_A_KIND", Take(OfRank(cards, FirstRankWith(cards, 3, 0)), 3))
        ELSE IF Len(pairs) >= 2
        THEN LET top == TopTwoPairRanks(cards)
             IN  HT("TWO_PAIR",
                    Take(OfRank(cards, top[1]), 2) \o Take(OfRank(cards, top[2]), 2))
        ELSE IF Len(pairs) >= 1
        THEN HT("PAIR", Take(OfRank(cards, pairs[1]), 2))
        ELSE HT("HIGH_CARD", <<MaxRankCard(cards)>>)

-----------------------------------------------------------------------------
(* Card.chip_value *)

\* a chip value that is the rank, faces and ace included
chip_value_by_rank(card) == card.rank

chip_value(card) ==
    IF card.enhancement = "STONE" THEN 50
    ELSE LET base == IF card.rank >= 2 /\ card.rank <= 10 THEN card.rank
                     ELSE IF card.rank \in {11, 12, 13} THEN 10
                     ELSE 11
         IN  base + (IF card.enhancement = "BONUS" THEN 30 ELSE 0)
                  + (IF card.edition = "FOIL" THEN 50 ELSE 0)

-----------------------------------------------------------------------------
(* HandType values and HandLevel *)

base_chips(t) ==
    CASE t = "HIGH_CARD" -> 5
      [] t = "PAIR" -> 10
      [] t = "TWO_PAIR" -> 20
      [] t = "THREE_OF_A_KIND" -> 30
      [] t = "STRAIGHT" -> 30
      [] t = "FLUSH" -> 35
      [] t = "FULL_HOUSE" -> 40
      [] t = "FOUR_OF_A_KIND" -> 60
      [] t = "STRAIGHT_FLUSH" -> 100
      [] t = "ROYAL_FLUSH" -> 100
      [] t = "FIVE_OF_A_KIND" -> 120
      [] t = "FLUSH_HOUSE" -> 140
      [] t = "FLUSH_FIVE" -> 160

base_mult(t) ==
    CASE t = "HIGH_CARD" -> 1
      [] t = "PAIR" -> 2
      [] t = "TWO_PAIR" -> 2
      [] t = "THREE_OF_A_KIND" -> 3
      [] t = "STRAIGHT" -> 4
      [] t = "FLUSH" -> 4
      [] t = "FULL_HOUSE" -> 4
      [] t = "FOUR_OF_A_KIND" -> 7
      [] t = "STRAIGHT_FLUSH" -> 8
      [] t = "ROYAL_FLUSH" -> 8
      [] t = "FIVE_OF_A_KIND" -> 12
      [] t = "FLUSH_HOUSE" -> 14
      [] t = "FLUSH_FIVE" -> 16

\* HandLevel.chips: level_bonus
level_bonus(t) ==
    CASE t = "HIGH_CARD" -> 10
      [] t = "PAIR" -> 15
      [] t = "TWO_PAIR" -> 20
      [] t = "THREE_OF_A_KIND" -> 20
      [] t = "STRAIGHT" -> 30
      [] t = "FLUSH" -> 15
      [] t = "FULL_HOUSE" -> 25
      [] t = "FOUR_OF_A_KIND" -> 30
      [] t = "STRAIGHT_FLUSH" -> 40
      [] t = "ROYAL_FLUSH" -> 40
      [] t = "FIVE_OF_A_KIND" -> 35
      [] t = "FLUSH_HOUSE" -> 40
      [] t = "FLUSH_FIVE" -> 50

\* level chips that ignore the level of the hand
level_chips_flat(state, t) == base_chips(t)

\* GameState.get_hand_level(t).chips
level_chips(state, t) == base_chips(t) + (state.hand_levels[t] - 1) * level_bonus(t)

\* GameState.get_hand_level(t).mult
level_mult(state, t) == base_mult(t) + (state.hand_levels[t] - 1)

-----------------------------------------------------------------------------
(* Jokers: JokerEffect, JOKER_DATABASE, create_joker *)

\* JokerEffect(flat_chips, flat_mult, x_mult, conditional); "" is None
JokerEffect(fc, fm, xm, cond) ==
    [flat_chips |-> fc, flat_mult |-> fm, x_mult |-> Rat(xm, 1), conditional |-> cond]

NoEffect == JokerEffect(0, 0, 1, "")

JOKER_DATABASE ==
    [name \in {"Joker", "Greedy Joker", "Lusty Joker", "Wrathful Joker",
               "Gluttonous Joker", "Jolly Joker", "Zany Joker", "Mad Joker",
               "Crazy Joker", "Droll Joker", "Sly Joker", "Wily Joker",
               "Clever Joker", "Devious Joker", "Crafty Joker", "Half Joker",
               "Banner", "Mystic Summit", "Fibonacci", "Steel Joker",
               "Scary Face", "Abstract Joker", "Ride the Bus", "Blackboard",
               "The Duo", "The Trio", "The Family", "The Order", "The Tribe"} |->
        CASE name = "Joker" -> JokerEffect(0, 4, 1, "")
          [] name \in {"Greedy Joker", "Lusty Joker", "Wrathful Joker",
                       "Gluttonous Joker", "Abstract Joker"} -> JokerEffect(0, 3, 1, "")
          [] name = "Jolly Joker" -> JokerEffect(0, 8, 1, "pair")
          [] name = "Zany Joker" -> JokerEffect(0, 12, 1, "three_of_a_kind")
          [] name = "Mad Joker" -> JokerEffect(0, 10, 1, "two_pair")
          [] name = "Crazy Joker" -> JokerEffect(0, 12, 1, "straight")
          [] name = "Droll Joker" -> JokerEffect(0, 10, 1, "flush")
          [] name = "Sly Joker" -> JokerEffect(50, 0, 1, "pair")
          [] name = "Wily Joker" -> JokerEffect(100, 0, 1, "three_of_a_kind")
          [] name = "Clever Joker" -> JokerEffect(80, 0, 1, "two_pair")
          [] name = "Devious Joker" -> JokerEffect(100, 0, 1, "straight")
          [] name = "Crafty Joker" -> JokerEffect(80, 0, 1, "flush")
          [] name = "Half Joker" -> JokerEffect(0, 20, 1, "hand_size_lte_3")
          [] name \in {"Banner", "Scary Face"} -> JokerEffect(30, 0, 1, "")
          [] name = "Mystic Summit" -> JokerEffect(0, 15, 1, "discards_0")
          [] name = "Fibonacci" -> JokerEffect(0, 8, 1, "")
          [] name = "Steel Joker" -> JokerEffect(0, 0, 1, "")
          [] name = "Ride the Bus" -> JokerEffect(0, 1, 1, "")
          [] name = "Blackboard" -> JokerEffect(0, 0, 3, "all_spades_clubs")
          [] name = "The Duo" -> JokerEffect(0, 0, 2, "pair")
          [] name = "The Trio" -> JokerEffect(0, 0, 3, "three_of_a_kind")
          [] name = "The Family" -> JokerEffect(0, 0, 4, "four_of_a_kind")
          [] name = "The Order" -> JokerEffect(0, 0, 3, "straight")
          [] name = "The Tribe" -> JokerEffect(0, 0, 2, "flush")]

\* Joker(name, edition, effect); rarity and sell_value are never read
Joker(name, edition, effect) == [name |-> name, edition |-> edition, effect |-> effect]

\* a create_joker that falls back on the effect of "Joker"
create_joker_fallback(name, edition) ==
    [name |-> name,
     edition |-> edition,
     effect |-> IF name \in DOMAIN JOKER_DATABASE THEN JOKER_DATABASE[name]
                ELSE JOKER_DATABASE["Joker"]]

\* create_joker(name, edition): JOKER_DATABASE.get(name, JokerEffect())
create_joker(name, edition) ==
    [name |-> name,
     edition |-> edition,
     effect |-> IF name \in DOMAIN JOKER_DATABASE THEN JOKER_DATABASE[name] ELSE NoEffect]

-----------------------------------------------------------------------------
(* HandEvaluator._check_condition, _apply_joker, calculate_score *)

\* conditions.get(condition, False)
check_condition(condition, cards, hand_type, state) ==
    CASE condition = "pair" -> hand_type = "PAIR"
      [] condition = "two_pair" -> hand_type = "TWO_PAIR"
      [] condition = "three_of_a_kind" -> hand_type = "THREE_OF_A_KIND"
      [] condition = "straight" -> hand_type \in {"STRAIGHT", "STRAIGHT_FLUSH"}
      [] condition = "flush" ->
            hand_type \in {"FLUSH", "STRAIGHT_FLUSH", "FLUSH_HOUSE", "FLUSH_FIVE"}
      [] condition = "full_house" -> hand_type \in {"FULL_HOUSE", "FLUSH_HOUSE"}
      [] condition = "four_of_a_kind" -> hand_type = "FOUR_OF_A_KIND"
      [] condition = "hand_size_lte_3" -> Len(cards) <= 3
      [] condition = "discards_0" -> state.discards_remaining = 0
      [] condition = "all_spades_clubs" ->
            \A i \in 1..Len(cards) : cards[i].suit \in {"S", "C"}
      [] OTHER -> FALSE

\* the running (chips, mult, x_mult) of calculate_score
Acc(chips, mult, x) == [chips |-> chips, mult |-> mult, x |-> x]

\* a joker applied without looking at its condition
apply_joker_unconditional(acc, joker, cards, hand_type, state) ==
    Acc(acc.chips + joker.effect.flat_chips,
        acc.mult + joker.effect.flat_mult,
        RatMul(acc.x, joker.effect.x_mult))

\* _apply_joker, added to the running totals
apply_joker(acc, joker, cards, hand_type, state) ==
    LET effect == joker.effect
        condition_met ==
            IF effect.conditional # ""
            THEN check_condition(effect.conditional, cards, hand_type, state)
            ELSE TRUE
    IN  IF condition_met
        THEN Acc(acc.chips + effect.flat_chips,
                 acc.mult + effect.flat_mult,
                 RatMul(acc.x, effect.x_mult))
        ELSE acc

\* the joker's own edition (calculate_score, after _apply_joker)
joker_edition(acc, joker) ==
    CASE joker.edition = "FOIL" -> Acc(acc.chips + 50, acc.mult, acc.x)
      [] joker.edition = "HOLOGRAPHIC" -> Acc(acc.chips, acc.mult + 10, acc.x)
      [] joker.edition = "POLYCHROME" -> Acc(acc.chips, acc.mult, RatMul(acc.x, Rat(3, 2)))
      [] OTHER -> acc

\* a scoring card whose Mult enhancement sets the mult to 4 (mult = 4)
score_card_mult_assigned(acc, card) ==
    Acc(acc.chips + chip_value(card),
        (IF card.enhancement = "MULT" THEN 4 ELSE acc.mult)
            + (IF card.edition = "HOLOGRAPHIC" THEN 10 ELSE 0),
        RatMul(RatMul(acc.x, IF card.enhancement = "GLASS" THEN Rat(2, 1) ELSE Rat(1, 1)),
               IF card.edition = "POLYCHROME" THEN Rat(3, 2) ELSE Rat(1, 1)))

\* one scoring card of the first loop of calculate_score
score_card(acc, card) ==
    Acc(acc.chips + chip_value(card),
        acc.mult + (IF card.enhancement = "MULT" THEN 4 ELSE 0)
                 + (IF card.edition = "HOLOGRAPHIC" THEN 10 ELSE 0),
        RatMul(RatMul(acc.x, IF card.enhancement = "GLASS" THEN Rat(2, 1) ELSE Rat(1, 1)),
               IF card.edition = "POLYCHROME" THEN Rat(3, 2) ELSE Rat(1, 1)))

\* for card in scoring_cards
RECURSIVE ScoreCards(_, _)
ScoreCards(acc, scoring_cards) ==
    IF scoring_cards = <<>> THEN acc
    ELSE With(score_card(acc, Head(scoring_cards)),
              LAMBDA next : ScoreCards(next, Tail(scoring_cards)))

\* for joker in state.jokers
RECURSIVE ScoreJokers(_, _, _, _, _)
ScoreJokers(acc, jokers, cards, hand_type, state) ==
    IF jokers = <<>> THEN acc
    ELSE With(apply_joker(acc, Head(jokers), cards, hand_type, state),
              LAMBDA applied :
                With(joker_edition(applied, Head(jokers)),
                     LAMBDA next : ScoreJokers(next, Tail(jokers), cards, hand_type, state)))

\* returns (score, hand_type, chips, int(final_mult)); scoring keeps the
\* positions of the scoring cards
calculate_score(cards, state) ==
    With(get_hand_type(cards), LAMBDA ht :
    With(Acc(level_chips(state, ht.hand_type), level_mult(state, ht.hand_type), Rat(1, 1)),
         LAMBDA start :
    With(ScoreCards(start, At(cards, ht.scoring)), LAMBDA afterCards :
    With(ScoreJokers(afterCards, state.jokers, cards, ht.hand_type, state), LAMBDA acc :
    With(RatMul(Rat(acc.mult, 1), acc.x), LAMBDA final_mult :
        [score |-> RatFloor(RatMul(Rat(acc.chips, 1), final_mult)),
         hand_type |-> ht.hand_type,
         chips |-> acc.chips,
         mult |-> RatFloor(final_mult),
         scoring |-> ht.scoring])))))

-----------------------------------------------------------------------------
(* optimizer.py: Action, and the enumeration of plays *)

\* Action(action_type, cards, expected_score, hand_type, reasoning); idx are
\* the positions in the hand of the card objects in cards. The reasoning of
\* a play is its "<chips> chips x <mult> mult"; hand_type "None" is None.
Action(type, hand, idx, score, hand_type, reasoning) ==
    [action_type |-> type,
     idx |-> idx,
     cards |-> At(hand, idx),
     expected_score |-> score,
     hand_type |-> hand_type,
     reasoning |-> reasoning]

\* itertools.combinations(range(lo, n + 1), k), in its order
RECURSIVE CombsFrom(_, _, _)
CombsFrom(lo, n, k) ==
    IF k = 0 THEN << <<>> >>
    ELSE IF n - lo + 1 < k THEN <<>>
    ELSE With(CombsFrom(lo + 1, n, k - 1), LAMBDA rest :
            List([j \in 1..Len(rest) |-> <<lo>> \o rest[j]]) \o CombsFrom(lo + 1, n, k))

\* for num_cards in range(1, min(6, len(hand) + 1)): for combo in combinations
RECURSIVE CombosFromSize(_, _)
CombosFromSize(n, num_cards) ==
    IF num_cards >= Min(6, n + 1) THEN <<>>
    ELSE CombsFrom(1, n, num_cards) \o CombosFromSize(n, num_cards + 1)

PlayCombos(n) == CombosFromSize(n, 1)

\* the Action built for one combo (find_best_play and find_all_plays)
PlayAction(state, idx) ==
    With(calculate_score(At(state.hand, idx), state), LAMBDA r :
        Action("PLAY", state.hand, idx, r.score, r.hand_type, <<r.chips, r.mult>>))

\* every combo with its Action, in enumeration order
EnumeratedPlays(state) ==
    With(PlayCombos(Len(state.hand)), LAMBDA combos :
        List([k \in 1..Len(combos) |-> PlayAction(state, combos[k])]))

-----------------------------------------------------------------------------
(* StrategyOptimizer.find_best_play *)

\* a comparison that also replaces the best on an equal score
BeatsOrTies(score, best_score) == score >= best_score

\* if score > best_score
Beats(score, best_score) == score > best_score

\* best_action after the loop over plays. best_score starts at -1 and only
\* rises, so the play left in best_action is the one that beat every play
\* before it and that no later play beat.
BestOf(plays) ==
    LET n == Len(plays)
        best == CHOOSE k \in 1..n :
                    /\ Beats(plays[k].expected_score, -1)
                    /\ \A j \in 1..(k - 1) :
                            Beats(plays[k].expected_score, plays[j].expected_score)
                    /\ \A j \in (k + 1)..n :
                            ~Beats(plays[j].expected_score, plays[k].expected_score)
    IN  plays[best]

find_best_play(state) ==
    IF Len(state.hand) = 0
    THEN Action("PLAY", state.hand, <<>>, 0, "None", "No hay cartas en mano")
    ELSE With(EnumeratedPlays(state), LAMBDA plays : BestOf(plays))

-----------------------------------------------------------------------------
(* StrategyOptimizer.find_all_plays *)

find_all_plays(state, top_n) ==
    With(EnumeratedPlays(state), LAMBDA plays :
    With(StableSortDesc(List([k \in 1..Len(plays) |->
                            [key |-> Rat(plays[k].expected_score, 1), val |-> plays[k]]])),
         LAMBDA sorted :
        PySlice(List([k \in 1..Len(sorted) |-> sorted[k].val]), top_n)))

-----------------------------------------------------------------------------
(* StrategyOptimizer._calculate_draw_probability, _estimate_hand_score *)

calculate_draw_probability(cards_needed, favorable_cards, deck_size) ==
    IF cards_needed = 0 THEN Rat(1, 1)
    ELSE IF cards_needed = 1 THEN RatNorm(Rat(favorable_cards, deck_size))
    ELSE IF cards_needed = 2
    THEN RatNorm(Rat(deck_size * (deck_size - 1)
                        - (deck_size - favorable_cards) * (deck_size - favorable_cards - 1),
                     deck_size * (deck_size - 1)))
    ELSE LET x == IF cards_needed > 0
                  THEN RatNorm(Rat(10 * Pow(favorable_cards, cards_needed),
                                   Pow(deck_size, cards_needed)))
                  ELSE RatNorm(Rat(10 * Pow(deck_size, 0 - cards_needed),
                                   Pow(favorable_cards, 0 - cards_needed)))
         IN  IF RatLess(x, Rat(1, 100)) THEN Rat(1, 100) ELSE x

\* the tables of _estimate_hand_score: .get(hand_type, 5) and .get(hand_type, 1)
estimate_base_chips(t) ==
    IF t \in {"FIVE_OF_A_KIND", "FLUSH_HOUSE", "FLUSH_FIVE"} THEN 5 ELSE base_chips(t)

estimate_base_mult(t) ==
    IF t \in {"FIVE_OF_A_KIND", "FLUSH_HOUSE", "FLUSH_FIVE"} THEN 1 ELSE base_mult(t)

\* for joker in self.state.jokers: joker.trigger_type: Joker has no such
\* attribute, so the first joker raises AttributeError in every call of
\* _estimate_hand_score
estimate_raises(state) == Len(state.jokers) > 0

\* the value _estimate_hand_score returns when it returns
estimate_hand_score(state, hand_type, scoring_cards) ==
    LET card_chips(c) == IF c.rank = 14 THEN 11 ELSE IF c.rank <= 10 THEN c.rank ELSE 10
        cards_chips ==
            IF Len(scoring_cards) > 0
            THEN SumSeq(List([k \in 1..Len(scoring_cards) |-> card_chips(scoring_cards[k])]))
            ELSE 7 * (IF hand_type \in {"STRAIGHT", "FLUSH", "FULL_HOUSE",
                                        "STRAIGHT_FLUSH", "ROYAL_FLUSH"} THEN 5 ELSE 2)
        level == state.hand_levels[hand_type]
        chips == estimate_base_chips(hand_type) + cards_chips + (level - 1) * 10
        mult == estimate_base_mult(hand_type) + (level - 1) * 1
    IN  chips * mult

-----------------------------------------------------------------------------
(* StrategyOptimizer.analyze_potential_hands *)

\* rank_counts / suit_counts of the optimizer: every card of the hand counts
HandRankCount(hand, r) == Cardinality({i \in 1..Len(hand) : hand[i].rank = r})

HandSuitCount(hand, s) == Cardinality({i \in 1..Len(hand) : hand[i].suit = s})

\* the keys of suit_counts in insertion order
SuitKeys(hand) ==
    LET first == SelectSeq(Idx(Len(hand)),
                     LAMBDA i : \A j \in 1..(i - 1) : hand[j].suit # hand[i].suit)
    IN  List([k \in 1..Len(first) |-> hand[first[k]].suit])

\* [c for c in hand if c not in cards_to_keep], by Card.__eq__
NotInKeep(hand, keep) ==
    SelectSeq(Idx(Len(hand)), LAMBDA i : ~CardIn(hand[i], At(hand, keep)))

PotentialHand(hand_type, cards_needed, cards_to_discard, cards_to_keep, probability, score) ==
    [hand_type |-> hand_type,
     cards_needed |-> cards_needed,
     cards_to_discard |-> cards_to_discard,
     cards_to_keep |-> cards_to_keep,
     probability |-> probability,
     expected_score |-> score]

\* 1. FLUSH: one candidate per suit with count >= 4
FlushPotentials(state) ==
    LET hand == state.hand
        suits == SelectSeq(SuitKeys(hand),
                     LAMBDA s : HandSuitCount(hand, s) >= 4
                                /\ 5 - HandSuitCount(hand, s) <= 2)
        one(s) ==
            LET count == HandSuitCount(hand, s)
                cards_needed == 5 - count
                cards_to_keep == SelectSeq(Idx(Len(hand)), LAMBDA i : hand[i].suit = s)
                cards_to_discard ==
                    PySlice(SelectSeq(Idx(Len(hand)), LAMBDA i : hand[i].suit # s), 5)
            IN  PotentialHand("FLUSH", cards_needed,
                    PySlice(cards_to_discard, cards_needed + 2),
                    cards_to_keep,
                    calculate_draw_probability(cards_needed, 13 - count, 52 - 8),
                    estimate_hand_score(state, "FLUSH", At(hand, cards_to_keep)))
    IN  List([k \in 1..Len(suits) |-> one(suits[k])])

\* _find_straight_potential: the rank the 4-run is said to miss (0 is None)
NeededRank(sorted_ranks, i) ==
    LET lo == sorted_ranks[i]
        hi == sorted_ranks[i + 3]
    IN  IF i > 1 /\ sorted_ranks[i - 1] = lo - 1 THEN lo - 1
        ELSE IF i + 4 <= Len(sorted_ranks) /\ sorted_ranks[i + 4] = hi + 1 THEN hi + 1
        ELSE IF lo > 2 THEN lo - 1
        ELSE IF hi < 14 THEN hi + 1
        ELSE 0

\* cards_by_rank[rank][:1] for each rank of the window
WindowKeep(hand, sorted_ranks, i, width) ==
    List([k \in 1..width |->
            CHOOSE p \in 1..Len(hand) :
                /\ hand[p].rank = sorted_ranks[i + k - 1]
                /\ \A q \in 1..(p - 1) : hand[q].rank # hand[p].rank])

\* _find_straight_potential: a list of at most one candidate
StraightPotentials(state) ==
    With(SortedSet({state.hand[i].rank : i \in 1..Len(state.hand)}), LAMBDA sorted_ranks :
    LET hand == state.hand
        n == Len(sorted_ranks)
        runs4 == {i \in 1..(n - 3) :
                    /\ sorted_ranks[i + 3] - sorted_ranks[i] = 3
                    /\ NeededRank(sorted_ranks, i) # 0}
        runs3 == {i \in 1..(n - 2) : sorted_ranks[i + 2] - sorted_ranks[i] = 2}
        prob3 == calculate_draw_probability(2, 8, 52 - 8)
    IN  IF runs4 # {}
        THEN LET i == CHOOSE x \in runs4 : \A y \in runs4 : x <= y
                 keep == WindowKeep(hand, sorted_ranks, i, 4)
             IN  << PotentialHand("STRAIGHT", 1,
                        PySlice(NotInKeep(hand, keep), 4), keep,
                        calculate_draw_probability(1, 4, 52 - 8),
                        estimate_hand_score(state, "STRAIGHT", At(hand, keep))) >>
        ELSE IF runs3 # {} /\ RatLess(Rat(5, 100), prob3)
        THEN LET i == CHOOSE x \in runs3 : \A y \in runs3 : x <= y
                 keep == WindowKeep(hand, sorted_ranks, i, 3)
             IN  << PotentialHand("STRAIGHT", 2,
                        PySlice(NotInKeep(hand, keep), 5), keep, prob3,
                        estimate_hand_score(state, "STRAIGHT", At(hand, keep))) >>
        ELSE <<>>)

\* 3. FOUR OF A KIND (n = 3) and 5. THREE OF A KIND (n = 2): one candidate
\* per rank with count == n
OfAKindPotentials(state, hand_type, n, favorable) ==
    LET hand == state.hand
        ranks == SelectSeq(RankKeys(hand), LAMBDA r : HandRankCount(hand, r) = n)
        one(r) ==
            LET cards_to_keep == OfRank(hand, r)
                cards_to_discard == SelectSeq(Idx(Len(hand)), LAMBDA i : hand[i].rank # r)
            IN  PotentialHand(hand_type, 1, PySlice(cards_to_discard, 3), cards_to_keep,
                    calculate_draw_probability(1, favorable, 52 - 8),
                    estimate_hand_score(state, hand_type, At(hand, cards_to_keep)))
    IN  List([k \in 1..Len(ranks) |-> one(ranks[k])])

\* 4. FULL HOUSE
FullHousePotentials(state) ==
    LET hand == state.hand
        pairs == SelectSeq(RankKeys(hand), LAMBDA r : HandRankCount(hand, r) >= 2)
        trips == SelectSeq(pairs, LAMBDA r : HandRankCount(hand, r) >= 3)
        twos == SelectSeq(pairs, LAMBDA r : HandRankCount(hand, r) = 2)
    IN  IF Len(pairs) < 2 THEN <<>>
        ELSE IF Len(trips) > 0 /\ Len(twos) > 0
        THEN << PotentialHand("FULL_HOUSE", 0, <<>>, Idx(Len(hand)), Rat(1, 1),
                    estimate_hand_score(state, "FULL_HOUSE", PySlice(hand, 5))) >>
        ELSE IF Len(twos) >= 2
        THEN LET asc == SortedSet(Range(twos))
                 best_pair_rank == asc[Len(asc)]
                 other_pair_rank == asc[1]
                 cards_to_keep == OfRank(hand, best_pair_rank) \o OfRank(hand, other_pair_rank)
                 cards_to_discard == NotInKeep(hand, cards_to_keep)
             IN  << PotentialHand("FULL_HOUSE", 1, cards_to_discard, cards_to_keep,
                        calculate_draw_probability(1, 4, 52 - 8),
                        estimate_hand_score(state, "FULL_HOUSE", At(hand, cards_to_keep))) >>
        ELSE <<>>

\* the candidates in the order they are appended
UnsortedPotentials(state) ==
    FlushPotentials(state)
        \o StraightPotentials(state)
        \o OfAKindPotentials(state, "FOUR_OF_A_KIND", 3, 1)
        \o FullHousePotentials(state)
        \o OfAKindPotentials(state, "THREE_OF_A_KIND", 2, 2)

\* a call that raised, and one that returned value
Raised == [raised |-> TRUE]

Returned(value) == [raised |-> FALSE, value |-> value]

\* no call has ended yet
NoResult == [none |-> TRUE]

analyze_potential_hands(state) ==
    With(UnsortedPotentials(state), LAMBDA potentials :
        IF Len(potentials) > 0 /\ estimate_raises(state) THEN Raised
        ELSE With(StableSortDesc(List([k \in 1..Len(potentials) |->
                        [key |-> RatNorm(Rat(potentials[k].expected_score
                                                * potentials[k].probability.n,
                                             potentials[k].probability.d)),
                         val |-> potentials[k]]])),
                  LAMBDA sorted :
                    Returned(List([k \in 1..Len(sorted) |-> sorted[k].val]))))

-----------------------------------------------------------------------------
(* StrategyOptimizer._analyze_discards, find_best_discard *)

\* the value of a candidate in the fallback (lower is discarded first)
discard_card_value(hand, card) ==
    HandRankCount(hand, card.rank) * 20
        + HandSuitCount(hand, card.suit) * 5
        + (IF card.rank >= 10 THEN 10 ELSE 0)
        + (IF card.rank = 14 THEN 15 ELSE 0)
        + (IF card.enhancement # "NONE" THEN 30 ELSE 0)
        + (IF card.edition # "NONE" THEN 40 ELSE 0)

\* _generate_discard_reasoning, as a tag
discard_reasoning(hand, discards) ==
    IF \E k \in 1..Len(discards) :
            \/ HandRankCount(hand, hand[discards[k]].rank) = 1
            \/ HandSuitCount(hand, hand[discards[k]].suit) < 3
    THEN "reasons" ELSE "Cartas de menor valor esperado"

analyze_discards(state, candidates) ==
    With(analyze_potential_hands(state), LAMBDA analysis :
        IF analysis.raised THEN Raised
        ELSE IF /\ Len(analysis.value) > 0
                /\ RatLeq(Rat(1, 10), analysis.value[1].probability)
                /\ analysis.value[1].cards_needed > 0
        THEN LET best_potential == analysis.value[1]
             IN  Returned(Action("DISCARD", state.hand,
                        PySlice(best_potential.cards_to_discard, 5),
                        RatFloor(Rat(best_potential.expected_score
                                        * best_potential.probability.n,
                                     best_potential.probability.d)),
                        best_potential.hand_type, "potential"))
        ELSE With(StableSortAsc(List([k \in 1..Len(candidates) |->
                        [key |-> Rat(discard_card_value(state.hand,
                                                        state.hand[candidates[k]]), 1),
                         val |-> candidates[k]]])),
                  LAMBDA card_values :
                    With(List([k \in 1..Min(5, Len(card_values)) |-> card_values[k].val]),
                         LAMBDA to_discard :
                            Returned(Action("DISCARD", state.hand, to_discard, 0, "None",
                                        discard_reasoning(state.hand, to_discard))))))

\* GameState.can_discard
can_discard(state) == state.discards_remaining > 0 /\ Len(state.hand) > 0

find_best_discard(state) ==
    IF ~can_discard(state)
    THEN Returned(Action("DISCARD", state.hand, <<>>, 0, "None", "No quedan descartes"))
    ELSE With(find_best_play(state), LAMBDA current_best :
         With(SelectSeq(Idx(Len(state.hand)), LAMBDA i : i \notin Range(current_best.idx)),
              LAMBDA discard_candidates :
                IF Len(discard_candidates) = 0
                THEN Returned(Action("DISCARD", state.hand, <<>>, 0, "None",
                                 "Todas las cartas son utiles, no descartar"))
                ELSE analyze_discards(state, discard_candidates)))

-----------------------------------------------------------------------------
(* StrategyOptimizer._count_consecutive, _estimate_discard_value *)

\* the running (current, max_consecutive) of the loop over sorted_ranks
RECURSIVE ConsecutiveFrom(_, _, _, _)
ConsecutiveFrom(sorted_ranks, i, current, max_consecutive) ==
    IF i > Len(sorted_ranks) THEN max_consecutive
    ELSE IF sorted_ranks[i] = sorted_ranks[i - 1] + 1
         THEN ConsecutiveFrom(sorted_ranks, i + 1, current + 1,
                              Max(max_consecutive, current + 1))
         ELSE ConsecutiveFrom(sorted_ranks, i + 1, 1, max_consecutive)

count_consecutive(sorted_ranks) ==
    IF Len(sorted_ranks) < 2 THEN Len(sorted_ranks)
    ELSE LET run == ConsecutiveFrom(sorted_ranks, 2, 1, 1)
             ranks == Range(sorted_ranks)
         IN  IF 14 \in ranks /\ 2 \in ranks
             THEN Max(run, 1 + Cardinality({2, 3, 4, 5} \cap ranks))
             ELSE run

estimate_discard_value(state) ==
    LET hand == state.hand
        ranks == {hand[i].rank : i \in 1..Len(hand)}
        suits == {hand[i].suit : i \in 1..Len(hand)}
        max_suit == IF suits = {} THEN 0
                    ELSE CHOOSE m \in {HandSuitCount(hand, s) : s \in suits} :
                            \A s \in suits : HandSuitCount(hand, s) <= m
        consecutive == With(SortedSet(ranks), LAMBDA sorted_ranks :
                            count_consecutive(sorted_ranks))
        max_rank == IF ranks = {} THEN 0
                    ELSE CHOOSE m \in {HandRankCount(hand, r) : r \in ranks} :
                            \A r \in ranks : HandRankCount(hand, r) <= m
        pairs == Cardinality({r \in ranks : HandRankCount(hand, r) >= 2})
    IN  (IF max_suit = 4 THEN 200 ELSE IF max_suit = 3 THEN 50 ELSE 0)
        + (IF consecutive = 4 THEN 150 ELSE IF consecutive = 3 THEN 30 ELSE 0)
        + (IF max_rank = 3 THEN 100
           ELSE IF max_rank = 2 /\ pairs >= 2 THEN 80 ELSE 0)

-----------------------------------------------------------------------------
(* GameState, Strategy *)

\* GameState: the fields the evaluator and the optimizer read. blind is
\* reduced to its target_score.
GameState(hand, jokers, hand_levels, hands_remaining, discards_remaining, current_score, target_score) ==
    [hand |-> hand,
     jokers |-> jokers,
     hand_levels |-> hand_levels,
     hands_remaining |-> hands_remaining,
     discards_remaining |-> discards_remaining,
     current_score |-> current_score,
     target_score |-> target_score]

\* field(default_factory=lambda: {ht: 1 for ht in HandType})
DefaultLevels == [t \in HandType |-> 1]

\* GameState(): 4 hands, 3 discards, Small Blind of 300
DefaultState == GameState(<<>>, <<>>, DefaultLevels, 4, 3, 0, 300)

\* no object (the simulation copy before and after calculate_strategy)
NoState == [none |-> TRUE]

\* Strategy()
NewStrategy ==
    [actions |-> <<>>,
     total_expected_score |-> 0,
     hands_needed |-> 0,
     discards_used |-> 0,
     success_probability |-> Rat(0, 1),
     notes |-> <<>>]

\* list.remove(card) guarded by "if card in list": drops the first element
\* equal to card by Card.__eq__
RECURSIVE RemoveFirstEq(_, _)
RemoveFirstEq(cards, card) ==
    IF cards = <<>> THEN <<>>
    ELSE IF CardEq(Head(cards), card) THEN Tail(cards)
    ELSE <<Head(cards)>> \o With(Tail(cards), LAMBDA rest : RemoveFirstEq(rest, card))

\* for card in action.cards: if card in hand: hand.remove(card)
RECURSIVE RemoveAll(_, _)
RemoveAll(hand, cards) ==
    IF cards = <<>> THEN hand
    ELSE With(RemoveFirstEq(hand, Head(cards)), LAMBDA left :
         With(Tail(cards), LAMBDA rest : RemoveAll(left, rest)))

\* a copy() that hands back the object it was called on
alias_ref == "caller"

\* GameState.copy(): the heap object the copy lives in
copy_ref == "sim"

-----------------------------------------------------------------------------
(* Operations of HandEvaluator and StrategyOptimizer that return at once *)

Idle == pc = "idle"

\* the caller makes a call on its GameState, and may repeat that call
Calls(c) == Idle /\ call \in {<<"none">>, c}

\* HandEvaluator.get_hand_type(played)
GetHandType ==
    /\ Idle
    /\ call' = <<"get_hand_type">>
    /\ ret' = Returned(get_hand_type(played))
    /\ UNCHANGED <<played, gs, pc, simRef, strategy, total_score>>

\* StrategyOptimizer(state).find_best_play()
FindBestPlay ==
    /\ Calls(<<"find_best_play">>)
    /\ call' = <<"find_best_play">>
    /\ ret' = Returned(find_best_play(gs.caller))
    /\ UNCHANGED <<played, gs, pc, simRef, strategy, total_score>>

\* StrategyOptimizer(state).find_all_plays(top_n)
FindAllPlays(top_n) ==
    /\ Calls(<<"find_all_plays", top_n>>)
    /\ call' = <<"find_all_plays", top_n>>
    /\ ret' = Returned(find_all_plays(gs.caller, top_n))
    /\ UNCHANGED <<played, gs, pc, simRef, strategy, total_score>>

\* StrategyOptimizer(state).find_best_discard()
FindBestDiscard ==
    /\ Calls(<<"find_best_discard">>)
    /\ call' = <<"find_best_discard">>
    /\ ret' = find_best_discard(gs.caller)
    /\ UNCHANGED <<played, gs, pc, simRef, strategy, total_score>>

\* StrategyOptimizer(state).analyze_potential_hands()
AnalyzePotentialHands ==
    /\ Calls(<<"analyze_potential_hands">>)
    /\ call' = <<"analyze_potential_hands">>
    /\ ret' = analyze_potential_hands(gs.caller)
    /\ UNCHANGED <<played, gs, pc, simRef, strategy, total_score>>

-----------------------------------------------------------------------------
(* StrategyOptimizer.calculate_strategy: entry, one action per loop          *)
(* iteration, and the code after the loop                                    *)

\* sim_state
SimState == gs[simRef]

\* the simulation object is dropped when the call ends, and so are the
\* locals strategy and total_score
DropSim(heap) == [heap EXCEPT !.sim = NoState]

\* an early return that needs current_score to be above the target
above_target(state) == state.target_score - state.current_score < 0

\* needed = target - current; if needed <= 0
already_won(state) == state.target_score - state.current_score <= 0

\* entry: the early return, or the copy and the locals of the loop
CalcStart ==
    /\ Calls(<<"calculate_strategy">>)
    /\ LET current == gs.caller.current_score
       IN  IF already_won(gs.caller)
           THEN /\ call' = <<"calculate_strategy">>
                /\ ret' = Returned([NewStrategy EXCEPT
                                        !.success_probability = Rat(1, 1),
                                        !.notes = <<"Ya ganaste el blind">>])
                /\ UNCHANGED <<gs, pc, simRef, strategy, total_score>>
           ELSE /\ gs' = [gs EXCEPT ![copy_ref] = gs.caller]
                /\ simRef' = copy_ref
                /\ total_score' = current
                /\ strategy' = NewStrategy
                /\ pc' = "loop"
                /\ call' = <<"calculate_strategy">>
                /\ UNCHANGED ret
    /\ UNCHANGED played

\* while total_score < target and sim_state.hands_remaining > 0
LoopCond ==
    /\ total_score < gs.caller.target_score
    /\ SimState.hands_remaining > 0

\* a should_discard without the 30% threshold on the heuristic value
should_discard_without_threshold(sim) ==
    /\ sim.discards_remaining > 0
    /\ sim.hands_remaining > 1

\* a should_discard that forgets "No estamos en la ultima mano"
should_discard_on_last_hand(sim) ==
    /\ sim.discards_remaining > 0
    /\ 10 * estimate_discard_value(sim) > 3 * find_best_play(sim).expected_score

\* should_discard; potential_improvement > expected_score * 0.3 compares an
\* integer with a double, which agrees with 10 * p > 3 * score on every
\* score below 200000
should_discard(sim) ==
    /\ sim.discards_remaining > 0
    /\ 10 * estimate_discard_value(sim) > 3 * find_best_play(sim).expected_score
    /\ sim.hands_remaining > 1

\* a discard iteration that also consumes a hand
StepDiscardConsumingHand ==
    /\ pc = "loop"
    /\ LoopCond
    /\ should_discard(SimState)
    /\ \E found \in {find_best_discard(SimState)} :
           /\ ~found.raised
           /\ Len(found.value.cards) > 0
           /\ strategy' = [strategy EXCEPT
                            !.actions = Append(@, found.value),
                            !.discards_used = @ + 1,
                            !.notes = Append(@, "Descarte para mejorar hacia mejor mano")]
           /\ gs' = [gs EXCEPT
                        ![simRef].discards_remaining = @ - 1,
                        ![simRef].hands_remaining = @ - 1,
                        ![simRef].hand = RemoveAll(@, found.value.cards)]
    /\ UNCHANGED <<played, call, ret, pc, simRef, total_score>>

\* a discard iteration that forgets to count the discard down
StepDiscardKeepingCount ==
    /\ pc = "loop"
    /\ LoopCond
    /\ should_discard(SimState)
    /\ \E found \in {find_best_discard(SimState)} :
           /\ ~found.raised
           /\ Len(found.value.cards) > 0
           /\ strategy' = [strategy EXCEPT
                            !.actions = Append(@, found.value),
                            !.discards_used = @ + 1,
                            !.notes = Append(@, "Descarte para mejorar hacia mejor mano")]
           /\ gs' = [gs EXCEPT
                        ![simRef].hand = RemoveAll(@, found.value.cards)]
    /\ UNCHANGED <<played, call, ret, pc, simRef, total_score>>

\* the iteration ends in "continue": a discard with cards was recorded
StepDiscard ==
    /\ pc = "loop"
    /\ LoopCond
    /\ should_discard(SimState)
    /\ \E found \in {find_best_discard(SimState)} :
           /\ ~found.raised
           /\ Len(found.value.cards) > 0
           /\ strategy' = [strategy EXCEPT
                            !.actions = Append(@, found.value),
                            !.discards_used = @ + 1,
                            !.notes = Append(@, "Descarte para mejorar hacia mejor mano")]
           /\ gs' = [gs EXCEPT
                        ![simRef].discards_remaining = @ - 1,
                        ![simRef].hand = RemoveAll(@, found.value.cards)]
    /\ UNCHANGED <<played, call, ret, pc, simRef, total_score>>

\* find_best_discard raises and the exception leaves calculate_strategy
StepRaise ==
    /\ pc = "loop"
    /\ LoopCond
    /\ should_discard(SimState)
    /\ find_best_discard(SimState).raised
    /\ ret' = Raised
    /\ pc' = "idle"
    /\ gs' = DropSim(gs)
    /\ strategy' = NewStrategy
    /\ total_score' = 0
    /\ UNCHANGED <<played, call, simRef>>

\* the iteration plays the best hand
StepPlay ==
    /\ pc = "loop"
    /\ LoopCond
    /\ \/ ~should_discard(SimState)
       \/ \E found \in {find_best_discard(SimState)} :
            ~found.raised /\ Len(found.value.cards) = 0
    /\ \E best_play \in {find_best_play(SimState)} :
           /\ strategy' = [strategy EXCEPT
                            !.actions = Append(@, best_play),
                            !.hands_needed = @ + 1]
           /\ total_score' = total_score + best_play.expected_score
           /\ gs' = [gs EXCEPT
                        ![simRef].hands_remaining = @ - 1,
                        ![simRef].hand = RemoveAll(@, best_play.cards)]
    /\ UNCHANGED <<played, call, ret, pc, simRef>>

\* a success probability without the cap at 0.8
success_probability_uncapped(total, target, hands_needed, hands_available) ==
    IF total >= target
    THEN IF hands_needed <= hands_available THEN Rat(95, 100) ELSE Rat(0, 1)
    ELSE RatNorm(Rat(total, target))

\* after the loop: the success probability, the notes, the return
success_probability(total, target, hands_needed, hands_available) ==
    IF total >= target
    THEN IF hands_needed <= hands_available THEN Rat(95, 100) ELSE Rat(0, 1)
    ELSE IF RatLess(Rat(total, target), Rat(8, 10))
         THEN RatNorm(Rat(total, target)) ELSE Rat(8, 10)

\* the Strategy returned after the loop
FinalStrategy ==
    LET target == gs.caller.target_score
        note == IF total_score >= target
                THEN IF strategy.hands_needed <= gs.caller.hands_remaining
                     THEN "Suficientes manos para ganar"
                     ELSE "No hay suficientes manos"
                ELSE "Puntuacion esperada < objetivo"
    IN  [strategy EXCEPT
            !.total_expected_score = total_score,
            !.success_probability =
                success_probability(total_score, target, strategy.hands_needed,
                                    gs.caller.hands_remaining),
            !.notes = Append(@, note)]

\* the Strategy of the early return
WonStrategy ==
    [NewStrategy EXCEPT !.success_probability = Rat(1, 1),
                        !.notes = <<"Ya ganaste el blind">>]

Finish ==
    /\ pc = "loop"
    /\ call = <<"calculate_strategy">>
    /\ ~LoopCond
    /\ ret' = Returned(FinalStrategy)
    /\ pc' = "idle"
    /\ gs' = DropSim(gs)
    /\ strategy' = NewStrategy
    /\ total_score' = 0
    /\ UNCHANGED <<played, call, simRef>>

-----------------------------------------------------------------------------
(* Recommender.update_state(state) followed by get_recommendation(): the     *)
(* strategy is computed by calculate_strategy, whose loop steps are shared   *)

\* no immediate action
NoAction == Action("None", <<>>, <<>>, 0, "None", "None")

\* an immediate action taken from the strategy only
immediate_action_from_strategy(actions, state) ==
    IF Len(actions) > 0 THEN actions[1] ELSE NoAction

\* strategy.actions[0] if strategy.actions else optimizer.find_best_play()
immediate_action(actions, state) ==
    IF Len(actions) > 0 THEN actions[1] ELSE find_best_play(state)

\* the tuple (immediate_action, strategy)
Recommendation(result) ==
    [immediate |-> immediate_action(result.actions, gs.caller), strategy |-> result]

\* entry: calculate_strategy returns at once, or starts its loop
RecStart ==
    /\ Calls(<<"get_recommendation">>)
    /\ call' = <<"get_recommendation">>
    /\ IF already_won(gs.caller)
       THEN /\ ret' = Returned(Recommendation(WonStrategy))
            /\ UNCHANGED <<gs, pc, simRef, strategy, total_score>>
       ELSE /\ gs' = [gs EXCEPT ![copy_ref] = gs.caller]
            /\ simRef' = copy_ref
            /\ total_score' = gs.caller.current_score
            /\ strategy' = NewStrategy
            /\ pc' = "loop"
            /\ UNCHANGED ret
    /\ UNCHANGED played

\* calculate_strategy has returned: the first action, or find_best_play
RecFinish ==
    /\ pc = "loop"
    /\ call = <<"get_recommendation">>
    /\ ~LoopCond
    /\ ret' = Returned(Recommendation(FinalStrategy))
    /\ pc' = "idle"
    /\ gs' = DropSim(gs)
    /\ strategy' = NewStrategy
    /\ total_score' = 0
    /\ UNCHANGED <<played, call, simRef>>

-----------------------------------------------------------------------------
(* Inputs of the evaluator: card lists over a pool of cards *)

\* the cards the evaluator is tried on: a royal run of hearts, a nine, a
\* second suit, a Wild and a Stone card
ClassifyPool ==
    << Plain(10, "H"), Plain(11, "H"), Plain(12, "H"), Plain(13, "H"), Plain(14, "H"),
       Plain(9, "H"), Plain(10, "S"),
       Card(13, "S", "WILD", "NONE"), Card(11, "S", "STONE", "NONE") >>

\* the non-decreasing sequences of length n over lo..hi: one per multiset
RECURSIVE NonDecreasing(_, _, _)
NonDecreasing(n, lo, hi) ==
    IF n = 0 THEN {<<>>}
    ELSE UNION {{<<i>> \o s : s \in NonDecreasing(n - 1, i, hi)} : i \in lo..hi}

Reverse(s) == List([i \in 1..Len(s) |-> s[Len(s) + 1 - i]])

\* every multiset of at most MaxCards pool cards, in pool order and reversed
ClassifyInputs ==
    LET picks == UNION {NonDecreasing(n, 1, Len(ClassifyPool)) : n \in 0..MaxCards}
    IN  {At(ClassifyPool, s) : s \in picks} \cup {At(ClassifyPool, Reverse(s)) : s \in picks}

InitIdle ==
    /\ call = <<"none">>
    /\ ret = NoResult
    /\ pc = "idle"
    /\ simRef = "sim"
    /\ strategy = NewStrategy
    /\ total_score = 0

InitHand ==
    /\ played \in ClassifyInputs
    /\ gs = [caller |-> DefaultState, sim |-> NoState]
    /\ InitIdle

NextHand == GetHandType

SpecHand == InitHand /\ [][NextHand]_vars

-----------------------------------------------------------------------------
(* Inputs of the optimizer: hands dealt from fixed decks, joker loadouts *)

\* 8-card deals. The first is the hand of demo(); the second is close to a
\* flush and a straight and carries Glass, Polychrome and Mult cards; the
\* third holds cards that are equal by Card.__eq__ and differ in edition,
\* a Stone and a Wild card.
Decks ==
    << << Plain(14, "S"), Plain(14, "H"), Plain(13, "S"), Plain(13, "H"),
          Plain(12, "D"), Plain(7, "C"), Plain(3, "S"), Plain(2, "H") >>,
       << Plain(5, "H"), Plain(6, "H"), Plain(7, "H"), Card(8, "H", "GLASS", "NONE"),
          Card(9, "S", "NONE", "POLYCHROME"), Plain(9, "D"),
          Card(13, "H", "MULT", "NONE"), Plain(2, "C") >>,
       << Plain(7, "S"), Card(7, "S", "NONE", "FOIL"), Card(7, "D", "NONE", "HOLOGRAPHIC"),
          Card(7, "C", "BONUS", "NONE"), Card(4, "H", "STONE", "NONE"),
          Card(9, "C", "WILD", "NONE"), Plain(11, "D"), Plain(11, "D") >>,
       << Plain(10, "C"), Plain(11, "C"), Plain(12, "C"), Plain(13, "C"),
          Plain(14, "C"), Plain(10, "D"), Card(10, "H", "GLASS", "POLYCHROME"),
          Plain(9, "C") >> >>

\* the strictly increasing sequences of length n over lo..hi
RECURSIVE Increasing(_, _, _)
Increasing(n, lo, hi) ==
    IF n = 0 THEN {<<>>}
    ELSE UNION {{<<i>> \o s : s \in Increasing(n - 1, i + 1, hi)} : i \in lo..hi}

\* the hands kept, in order, from the first maxLen + 1 cards of a deal: the
\* empty hand and every hand of 1 to maxLen cards
SubHands(maxLen) ==
    UNION {{At(Decks[d], s) :
                s \in UNION {Increasing(n, 1, Min(8, maxLen + 1)) : n \in 0..maxLen}} :
            d \in 1..Len(Decks)}

\* hand levels after levelling TWO_PAIR to 3 and PAIR to 2, as demo() does
DemoLevels == [DefaultLevels EXCEPT !["TWO_PAIR"] = 3, !["PAIR"] = 2]

\* jokers held and hand levels: none; those of demo(); conditional
\* multipliers with editions; a name the catalog does not know
Loadouts ==
    << [jokers |-> <<>>, hand_levels |-> DefaultLevels],
       [jokers |-> <<create_joker("Jolly Joker", "NONE"), create_joker("Joker", "NONE")>>,
        hand_levels |-> DemoLevels],
       [jokers |-> <<create_joker("The Duo", "POLYCHROME"),
                     create_joker("Mystic Summit", "FOIL")>>,
        hand_levels |-> DefaultLevels],
       [jokers |-> <<create_joker("Misprint", "HOLOGRAPHIC")>>,
        hand_levels |-> DemoLevels] >>

\* discards_remaining of a GameState under SpecPlay: Mystic Summit needs 0
PlayDiscards(l) == IF l = 3 THEN 0 ELSE 3

-----------------------------------------------------------------------------
(* SpecPlay: one call of find_best_play or find_all_plays on a GameState *)

\* the state of demo() before its jokers and levels: the full first deal
DemoHandState == GameState(Decks[1], <<>>, DefaultLevels, 4, 3, 0, 800)

PlayStates ==
    {GameState(hand, Loadouts[l].jokers, Loadouts[l].hand_levels, 4, PlayDiscards(l), 0, 300) :
        hand \in SubHands(MaxHand),
        l \in 1..Len(Loadouts)}
      \cup {DemoHandState}

InitPlay ==
    /\ played = <<>>
    /\ gs \in {[caller |-> state, sim |-> NoState] : state \in PlayStates}
    /\ InitIdle

NextPlay ==
    \/ FindBestPlay
    \/ \E top_n \in 1..MaxTopN : FindAllPlays(top_n)

SpecPlay == InitPlay /\ [][NextPlay]_vars

-----------------------------------------------------------------------------
(* Spec: any sequence of optimizer calls on one GameState *)

\* the first cards of each deal
StrategyHands == {PySlice(Decks[d], n) : d \in 1..Len(Decks), n \in {0, 4, 5, 6}}

\* without jokers, and with two jokers of the database
StrategyJokers == {<<>>, <<create_joker("Jolly Joker", "NONE"), create_joker("Joker", "NONE")>>}

\* (current_score, target_score): below the target, at it, above it
ScorePairs == {<<0, 150>>, <<50, 1000>>, <<300, 300>>, <<400, 300>>}

StrategyStates ==
    {GameState(hand, jokers, hand_levels, h, d, sp[1], sp[2]) :
        hand \in StrategyHands,
        jokers \in StrategyJokers,
        hand_levels \in {DefaultLevels, DemoLevels},
        h \in 0..MaxHandsRemaining,
        d \in 0..MaxDiscardsRemaining,
        sp \in ScorePairs}

Init ==
    /\ played = <<>>
    /\ gs \in {[caller |-> state, sim |-> NoState] : state \in StrategyStates}
    /\ InitIdle

Next ==
    \/ FindBestPlay
    \/ FindAllPlays(1)
    \/ FindBestDiscard
    \/ AnalyzePotentialHands
    \/ CalcStart
    \/ StepDiscard
    \/ StepRaise
    \/ StepPlay
    \/ Finish

Spec == Init /\ [][Next]_vars

-----------------------------------------------------------------------------
(* Properties of find_best_play and find_all_plays, checked under SpecPlay *)

Returns(c) == pc = "idle" /\ call = c /\ ~ret.raised

\* the subsets of a hand of n cards of size 1..min(5, n), as positions
PlaySubsets(n) == UNION {Increasing(k, 1, n) : k \in 1..Min(5, n)}

\* index-combination order within a size
LexBefore(a, b) ==
    \E i \in 1..Len(a) : a[i] < b[i] /\ \A j \in 1..(i - 1) : a[j] = b[j]

\* the enumeration order: sizes ascending, index-combination order within
EnumeratedBefore(a, b) ==
    \/ Len(a) < Len(b)
    \/ Len(a) = Len(b) /\ LexBefore(a, b)

ScoreOf(state, subset) == calculate_score(At(state.hand, subset), state).score

\* C1: on a hand of 1 or more cards find_best_play returns a PLAY action
\* whose cards are a subset of the hand of size 1..min(5, hand size), whose
\* expected_score is calculate_score of those cards and is at least the score
\* of every such subset, and which is the first subset of that score in the
\* enumeration order.
C1_BestPlayIsFirstMaximum ==
    (Returns(<<"find_best_play">>) /\ Len(gs.caller.hand) >= 1) =>
        \A best \in {ret.value} :
            LET state == gs.caller
                subsets == PlaySubsets(Len(state.hand))
            IN  /\ best.action_type = "PLAY"
                /\ best.idx \in subsets
                /\ best.cards = At(state.hand, best.idx)
                /\ best.expected_score = ScoreOf(state, best.idx)
                /\ \A c \in subsets :
                        LET score == ScoreOf(state, c)
                        IN  /\ score <= best.expected_score
                            /\ EnumeratedBefore(c, best.idx) => score < best.expected_score

\* a hand of more than 5 cards in which a later subset ties with the best
C1_Witness ==
    /\ Returns(<<"find_best_play">>)
    /\ Len(gs.caller.hand) > 5
    /\ Len(gs.caller.jokers) > 0
    /\ \E c \in PlaySubsets(Len(gs.caller.hand)) :
            /\ EnumeratedBefore(ret.value.idx, c)
            /\ ScoreOf(gs.caller, c) = ret.value.expected_score

\* C2: on a non-empty hand find_all_plays(top_n) returns plays in
\* non-increasing expected_score order, plays of equal score keep their
\* enumeration order, and find_all_plays(1)[0] has the cards, hand type and
\* score of find_best_play().
C2_AllPlaysSortedStable ==
    (pc = "idle" /\ call[1] = "find_all_plays" /\ ~ret.raised
            /\ Len(gs.caller.hand) >= 1) =>
        \A plays \in {ret.value} :
            /\ \A i \in 1..(Len(plays) - 1) :
                    plays[i].expected_score >= plays[i + 1].expected_score
            /\ \A i, j \in 1..Len(plays) :
                    (i < j /\ plays[i].expected_score = plays[j].expected_score)
                        => EnumeratedBefore(plays[i].idx, plays[j].idx)
            /\ call[2] = 1 =>
                    /\ Len(plays) = 1
                    /\ \A best \in {find_best_play(gs.caller)} :
                            /\ plays[1].cards = best.cards
                            /\ plays[1].hand_type = best.hand_type
                            /\ plays[1].expected_score = best.expected_score

\* three plays returned: two of equal score, then a lower one
C2_Witness ==
    /\ pc = "idle" /\ call = <<"find_all_plays", 3>> /\ ~ret.raised
    /\ Len(ret.value) = 3
    /\ ret.value[1].expected_score = ret.value[2].expected_score
    /\ ret.value[2].expected_score > ret.value[3].expected_score

-----------------------------------------------------------------------------
(* Properties of calculate_strategy and of the frame, checked under Spec *)

\* calculate_strategy has ended, by a return or by an exception
StrategyEnded == pc = "idle" /\ call = <<"calculate_strategy">>

StrategyReturned == StrategyEnded /\ ~ret.raised

\* the loop ran: current_score < target
BelowTarget == gs.caller.current_score < gs.caller.target_score

RatEq(a, b) == a.n * b.d = b.n * a.d

\* min(0.8, total / target)
CappedRatio(total, target) ==
    IF 10 * total < 8 * target THEN Rat(total, target) ELSE Rat(8, 10)

\* the recorded PLAY actions and the sum of their expected scores
PlaysOf(actions) == SelectSeq(actions, LAMBDA a : a.action_type = "PLAY")

PlayedScore(actions) ==
    SumSeq(List([k \in 1..Len(PlaysOf(actions)) |-> PlaysOf(actions)[k].expected_score]))

\* C3: calculate_strategy returns a Strategy and never raises an exception.
C3_StrategyNeverRaises == StrategyEnded => ~ret.raised

\* C4: no step of an optimizer operation changes the caller's GameState, and
\* a call that is repeated returns what it returned before.
C4_CallerStateUnchanged ==
    [][/\ gs'.caller = gs.caller
       /\ ret # NoResult => ret' = ret]_vars

\* calculate_strategy returned a plan that discards and plays on its copy
C4_Witness ==
    /\ StrategyReturned
    /\ ret.value.discards_used > 0
    /\ ret.value.hands_needed > 0
    /\ Len(gs.caller.hand) > 0

\* C5: after the loop success_probability is 0.95 if total_expected_score
\* reaches the target with hands_needed within the hands_remaining of the
\* caller, 0.0 if it reaches it with more hands, min(0.8, total / target)
\* otherwise, total_expected_score being current_score plus the expected
\* scores of the recorded PLAY actions.
C5_SuccessProbability ==
    (StrategyReturned /\ BelowTarget) =>
        \A result \in {ret.value} :
            LET target == gs.caller.target_score
                total == gs.caller.current_score + PlayedScore(result.actions)
                expected ==
                    IF total >= target
                    THEN IF result.hands_needed <= gs.caller.hands_remaining
                         THEN Rat(95, 100) ELSE Rat(0, 1)
                    ELSE CappedRatio(total, target)
            IN  /\ result.total_expected_score = total
                /\ result.hands_needed = Len(PlaysOf(result.actions))
                /\ RatEq(result.success_probability, expected)

\* a plan of two hands that ends between 0.8 of the target and the target
C5_Witness ==
    /\ StrategyReturned
    /\ BelowTarget
    /\ ret.value.hands_needed = 2
    /\ ret.value.total_expected_score < gs.caller.target_score
    /\ 10 * ret.value.total_expected_score > 8 * gs.caller.target_score
    /\ RatEq(ret.value.success_probability, Rat(8, 10))

\* C6: with hands_remaining = 1 and current_score < target the Strategy has
\* exactly one action, the PLAY action of find_best_play, and its
\* success_probability is 0.95 if current_score + best score reaches the
\* target and min(0.8, (current_score + best score) / target) otherwise.
C6_LastHandPlaysOnce ==
    (StrategyEnded /\ BelowTarget /\ gs.caller.hands_remaining = 1) =>
        /\ ~ret.raised
        /\ \A best \in {find_best_play(gs.caller)} :
            LET target == gs.caller.target_score
                total == gs.caller.current_score + best.expected_score
            IN  /\ ret.value.actions = <<best>>
                /\ best.action_type = "PLAY"
                /\ RatEq(ret.value.success_probability,
                         IF total >= target THEN Rat(95, 100)
                         ELSE CappedRatio(total, target))

\* the last hand, a discard left, and a hand the loop would discard from
\* if it had two hands to play
C6_Witness ==
    /\ StrategyReturned
    /\ BelowTarget
    /\ gs.caller.hands_remaining = 1
    /\ gs.caller.discards_remaining > 0
    /\ should_discard([gs.caller EXCEPT !.hands_remaining = 2])
    /\ Len(find_best_discard([gs.caller EXCEPT !.hands_remaining = 2]).value.cards) > 0
    /\ Len(ret.value.actions) = 1

\* C7: with current_score >= target calculate_strategy returns a Strategy
\* with success_probability 1.0, no actions, hands_needed 0 and
\* discards_used 0.
C7_AlreadyWon ==
    (StrategyEnded /\ ~BelowTarget) =>
        /\ ~ret.raised
        /\ RatEq(ret.value.success_probability, Rat(1, 1))
        /\ ret.value.actions = <<>>
        /\ ret.value.hands_needed = 0
        /\ ret.value.discards_used = 0

\* current_score equal to the target, with cards, hands and discards left
C7_Witness ==
    /\ StrategyReturned
    /\ gs.caller.current_score = gs.caller.target_score
    /\ Len(gs.caller.hand) > 0
    /\ gs.caller.hands_remaining > 0
    /\ gs.caller.discards_remaining > 0
    /\ RatEq(ret.value.success_probability, Rat(1, 1))

-----------------------------------------------------------------------------
(* Properties of get_hand_type, checked under SpecHand *)

Classified == call = <<"get_hand_type">>

\* the rules of the priority list, stated on the cards themselves
CardsOfRank(cards, r) == {i \in 1..Len(cards) : cards[i].rank = r}

RanksIn(cards) == {cards[i].rank : i \in 1..Len(cards)}

HasOfAKind(cards, n) == \E r \in RanksIn(cards) : Cardinality(CardsOfRank(cards, r)) >= n

HasTwoGroups(cards, n, m) ==
    \E r1, r2 \in RanksIn(cards) :
        /\ r1 # r2
        /\ Cardinality(CardsOfRank(cards, r1)) >= n
        /\ Cardinality(CardsOfRank(cards, r2)) >= m

\* 5 or more cards and a suit whose plain cards plus the Wild cards reach 5
FlushRule(cards) ==
    /\ Len(cards) >= 5
    /\ \E s \in Suit :
          Cardinality({i \in 1..Len(cards) :
                          cards[i].suit = s /\ cards[i].enhancement \notin {"WILD", "STONE"}})
            + Cardinality({i \in 1..Len(cards) : cards[i].enhancement = "WILD"}) >= 5

StraightRule(cards) ==
    \/ \E lo \in 2..10 : lo..(lo + 4) \subseteq RanksIn(cards)
    \/ {14, 2, 3, 4, 5} \subseteq RanksIn(cards)

\* rule k of the priority list FlushFive, FlushHouse, FiveOfAKind,
\* RoyalFlush/StraightFlush, FourOfAKind, FullHouse, Flush, Straight,
\* ThreeOfAKind, TwoPair, Pair, HighCard
RuleMatches(k, cards) ==
    CASE k = 1 -> FlushRule(cards) /\ HasOfAKind(cards, 5)
      [] k = 2 -> FlushRule(cards) /\ HasTwoGroups(cards, 3, 2)
      [] k = 3 -> HasOfAKind(cards, 5)
      [] k = 4 -> FlushRule(cards) /\ StraightRule(cards)
      [] k = 5 -> HasOfAKind(cards, 4)
      [] k = 6 -> HasTwoGroups(cards, 3, 2)
      [] k = 7 -> FlushRule(cards)
      [] k = 8 -> StraightRule(cards)
      [] k = 9 -> HasOfAKind(cards, 3)
      [] k = 10 -> HasTwoGroups(cards, 2, 2)
      [] k = 11 -> HasOfAKind(cards, 2)
      [] k = 12 -> TRUE

RuleOf(hand_type) ==
    CASE hand_type = "FLUSH_FIVE" -> 1
      [] hand_type = "FLUSH_HOUSE" -> 2
      [] hand_type = "FIVE_OF_A_KIND" -> 3
      [] hand_type \in {"ROYAL_FLUSH", "STRAIGHT_FLUSH"} -> 4
      [] hand_type = "FOUR_OF_A_KIND" -> 5
      [] hand_type = "FULL_HOUSE" -> 6
      [] hand_type = "FLUSH" -> 7
      [] hand_type = "STRAIGHT" -> 8
      [] hand_type = "THREE_OF_A_KIND" -> 9
      [] hand_type = "TWO_PAIR" -> 10
      [] hand_type = "PAIR" -> 11
      [] hand_type = "HIGH_CARD" -> 12

\* C8: for 1 to 5 cards get_hand_type returns the category of the first rule
\* of the priority list that matches, a flush being 5 or more cards with a
\* suit whose count (of cards neither Wild nor Stone) plus the number of Wild
\* cards is at least 5.
C8_FirstMatchingRule ==
    (Classified /\ Len(played) >= 1 /\ Len(played) <= 5) =>
        LET k == RuleOf(ret.value.hand_type)
        IN  /\ RuleMatches(k, played)
            /\ \A j \in 1..(k - 1) : ~RuleMatches(j, played)

\* a flush that only the Wild card completes, with a pair in it
C8_Witness ==
    /\ Classified
    /\ Len(played) = 5
    /\ ret.value.hand_type = "FLUSH"
    /\ \E i \in 1..5 : played[i].enhancement = "WILD"
    /\ HasOfAKind(played, 2)

\* C9: the scoring list has at most 5 cards, at most as many as the input,
\* holds only cards of the input, each at most once; the empty input gives
\* (HighCard, empty list).
C9_ScoringWithinInput ==
    Classified =>
        LET scoring == ret.value.scoring
        IN  /\ Len(scoring) <= 5
            /\ Len(scoring) <= Len(played)
            /\ \A k \in 1..Len(scoring) : scoring[k] \in 1..Len(played)
            /\ \A k, l \in 1..Len(scoring) : k # l => scoring[k] # scoring[l]
            /\ (played = <<>> => ret.value = HT("HIGH_CARD", <<>>))

\* more than 5 cards in, exactly 5 scoring
C9_Witness ==
    /\ Classified
    /\ Len(played) > 5
    /\ Len(ret.value.scoring) = 5

\* the input with every Stone card given rank r and suit s
RestoneAs(cards, r, s) ==
    List([i \in 1..Len(cards) |->
            IF cards[i].enhancement = "STONE"
            THEN [cards[i] EXCEPT !.rank = r, !.suit = s]
            ELSE cards[i]])

\* C10: the category does not depend on the rank or suit of the Stone cards
\* of the input.
C10_StoneHasNoRankOrSuit ==
    Classified =>
        \A r \in 2..14, s \in Suit :
            get_hand_type(RestoneAs(played, r, s)).hand_type = ret.value.hand_type

-----------------------------------------------------------------------------
(* SpecStraight: HandEvaluator._is_straight on rank lists *)

\* HandEvaluator._is_straight(played); played holds the rank list
IsStraight ==
    /\ Idle
    /\ call' = <<"_is_straight">>
    /\ ret' = Returned(is_straight(played))
    /\ UNCHANGED <<played, gs, pc, simRef, strategy, total_score>>

\* the sets of at most MaxRanks ranks
RankSets == {S \in SUBSET (2..14) : Cardinality(S) <= MaxRanks}

\* each set in ascending order, and in descending order followed by the
\* ascending one: unsorted, every rank twice
RankLists ==
    {SortedSet(S) : S \in RankSets}
        \cup {Reverse(SortedSet(S)) \o SortedSet(S) : S \in RankSets}

InitStraight ==
    /\ played \in RankLists
    /\ gs = [caller |-> DefaultState, sim |-> NoState]
    /\ InitIdle

NextStraight == IsStraight

SpecStraight == InitStraight /\ [][NextStraight]_vars

\* five consecutive values, the lowest being lo
HasRun(S, lo) == \A r \in lo..(lo + 4) : r \in S

\* C11: _is_straight(ranks) is true exactly when the set of distinct ranks
\* contains five consecutive values of 2..14 or contains {14, 2, 3, 4, 5};
\* fewer than five distinct ranks, or a run that wraps around the ace in
\* any other way, is not a straight.
C11_StraightExactly ==
    Returns(<<"_is_straight">>) =>
        LET S == Range(played)
        IN  /\ ret.value = ((\E lo \in 2..10 : HasRun(S, lo)) \/ {14, 2, 3, 4, 5} \subseteq S)
            /\ Cardinality(S) < 5 => ~ret.value
            /\ S \in {{12, 13, 14, 2, 3}, {11, 12, 13, 14, 2}, {13, 14, 2, 3, 4}} => ~ret.value

\* Q-K-A-2-3, unsorted and with every rank twice, is answered "no"
C11_Witness ==
    /\ Returns(<<"_is_straight">>)
    /\ Range(played) = {12, 13, 14, 2, 3}
    /\ Len(played) = 10
    /\ played[1] = 14
    /\ ~ret.value

-----------------------------------------------------------------------------
(* SpecScore: HandEvaluator.calculate_score on played cards and a GameState *)

\* HandEvaluator.calculate_score(played, state)
CalculateScore ==
    /\ Idle
    /\ call' = <<"calculate_score">>
    /\ ret' = Returned(calculate_score(played, gs.caller))
    /\ UNCHANGED <<played, gs, pc, simRef, strategy, total_score>>

\* the plays of at most MaxPlayed cards, in order, out of each deal
ScorePlays ==
    UNION {{At(Decks[d], s) : s \in UNION {Increasing(k, 1, Len(Decks[d])) : k \in 0..MaxPlayed}} :
              d \in 1..Len(Decks)}

\* jokers built directly, with a condition that no catalog entry uses and
\* with a condition name that _check_condition does not know
FullHouseJoker == Joker("Full House Joker", "NONE", JokerEffect(40, 0, 1, "full_house"))
BogusJoker == Joker("Bogus Joker", "FOIL", JokerEffect(100, 10, 2, "bogus"))

\* the jokers held: none, one per condition name, an unconditional one, a
\* name absent from the catalog, an unknown condition, and pairs of jokers
ScoreJokerSets ==
    { <<>>,
      <<create_joker("Jolly Joker", "NONE")>>,
      <<create_joker("Mad Joker", "FOIL")>>,
      <<create_joker("Zany Joker", "HOLOGRAPHIC")>>,
      <<create_joker("Crazy Joker", "POLYCHROME")>>,
      <<create_joker("Droll Joker", "NONE")>>,
      <<FullHouseJoker>>,
      <<create_joker("The Family", "FOIL")>>,
      <<create_joker("Half Joker", "NONE")>>,
      <<create_joker("Mystic Summit", "HOLOGRAPHIC")>>,
      <<create_joker("Blackboard", "POLYCHROME")>>,
      <<create_joker("Joker", "NONE")>>,
      <<create_joker("Unknown Joker", "NONE")>>,
      <<BogusJoker>>,
      <<create_joker("Half Joker", "NONE"), create_joker("Zany Joker", "HOLOGRAPHIC")>>,
      <<create_joker("Sly Joker", "NONE"), create_joker("Unknown Joker", "NONE"),
        BogusJoker, create_joker("The Duo", "NONE")>> }

\* hand levels and discards left: a fresh state with no discards, the
\* levels of the demo with three discards
ScoreContexts ==
    { [hand_levels |-> DefaultLevels, discards_remaining |-> 0],
      [hand_levels |-> DemoLevels, discards_remaining |-> 3] }

ScoreStates ==
    {GameState(<<>>, jokers, c.hand_levels, 4, c.discards_remaining, 0, 300) :
        jokers \in ScoreJokerSets, c \in ScoreContexts}

InitScore ==
    /\ played \in ScorePlays
    /\ gs \in {[caller |-> state, sim |-> NoState] : state \in ScoreStates}
    /\ InitIdle

NextScore == CalculateScore

SpecScore == InitScore /\ [][NextScore]_vars

-----------------------------------------------------------------------------
(* Properties of calculate_score, checked under SpecScore *)

\* the scoring cards of a play
ScoringOf(cards) == At(cards, get_hand_type(cards).scoring)

\* how many cards of a list have the enhancement, the edition
WithEnhancement(cards, enh) == Cardinality({i \in 1..Len(cards) : cards[i].enhancement = enh})
WithEdition(cards, ed) == Cardinality({i \in 1..Len(cards) : cards[i].edition = ed})

\* the chips of a category at the state's level plus those of the cards
CardChips(cards) == SumSeq(List([i \in 1..Len(cards) |-> chip_value(cards[i])]))
LevelOf(state, t) == state.hand_levels[t]

\* C12: with no jokers calculate_score returns floor(chips * mult * xMult),
\* chips being the level chips of the category plus the chip value of every
\* scoring card, mult the level mult plus 4 per Mult and 10 per Holographic
\* scoring card, xMult the product of 2 per Glass and 1.5 per Polychrome
\* scoring card; the cards that do not score add nothing; the mult reported
\* is floor(mult * xMult).
C12_NoJokerScore ==
    Returns(<<"calculate_score">>) /\ gs.caller.jokers = <<>> =>
        \A t \in {get_hand_type(played).hand_type} :
        \A sc \in {ScoringOf(played)} :
            LET L == LevelOf(gs.caller, t)
                chips == base_chips(t) + (L - 1) * level_bonus(t) + CardChips(sc)
                mult == base_mult(t) + (L - 1) + 4 * WithEnhancement(sc, "MULT")
                            + 10 * WithEdition(sc, "HOLOGRAPHIC")
                glass == WithEnhancement(sc, "GLASS")
                poly == WithEdition(sc, "POLYCHROME")
            IN  /\ ret.value.hand_type = t
                /\ ret.value.chips = chips
                /\ ret.value.score = (chips * mult * Pow(2, glass) * Pow(3, poly)) \div Pow(2, poly)
                /\ ret.value.mult = (mult * Pow(2, glass) * Pow(3, poly)) \div Pow(2, poly)

\* a levelled-up pair with one Polychrome scoring card and a card that does
\* not score: chips * mult * 1.5 is not whole and is rounded down
C12_Witness ==
    /\ Returns(<<"calculate_score">>)
    /\ gs.caller.jokers = <<>>
    /\ ret.value.hand_type = "PAIR"
    /\ LevelOf(gs.caller, "PAIR") > 1
    /\ Len(played) > Len(ret.value.scoring)
    /\ WithEdition(ScoringOf(played), "POLYCHROME") = 1
    /\ WithEnhancement(ScoringOf(played), "GLASS") = 0
    /\ 2 * ret.value.score < 3 * ret.value.chips * (base_mult("PAIR") + 1)

\* the ten condition names as the specification reads them; any other name
\* is a condition that does not hold
ConditionHolds(name, cards, t, state) ==
    \/ name = "pair" /\ t = "PAIR"
    \/ name = "two_pair" /\ t = "TWO_PAIR"
    \/ name = "three_of_a_kind" /\ t = "THREE_OF_A_KIND"
    \/ name = "straight" /\ t \in {"STRAIGHT", "STRAIGHT_FLUSH"}
    \/ name = "flush" /\ t \in {"FLUSH", "STRAIGHT_FLUSH", "FLUSH_HOUSE", "FLUSH_FIVE"}
    \/ name = "full_house" /\ t \in {"FULL_HOUSE", "FLUSH_HOUSE"}
    \/ name = "four_of_a_kind" /\ t = "FOUR_OF_A_KIND"
    \/ name = "hand_size_lte_3" /\ Len(cards) <= 3
    \/ name = "discards_0" /\ state.discards_remaining = 0
    \/ name = "all_spades_clubs" /\ \A i \in 1..Len(cards) : cards[i].suit \in {"S", "C"}

\* the joker has no condition, or its condition holds
Contributes(joker, cards, t, state) ==
    \/ joker.effect.conditional = ""
    \/ ConditionHolds(joker.effect.conditional, cards, t, state)

\* the jokers that contribute, in order
Contributing(jokers, cards, t, state) ==
    SelectSeq(jokers, LAMBDA j : Contributes(j, cards, t, state))

JokersWithEdition(jokers, ed) == Cardinality({i \in 1..Len(jokers) : jokers[i].edition = ed})

\* the product of the (whole) multipliers of a list of jokers
RECURSIVE MultiplierProduct(_)
MultiplierProduct(jokers) ==
    IF jokers = <<>> THEN 1
    ELSE (Head(jokers).effect.x_mult.n \div Head(jokers).effect.x_mult.d)
            * MultiplierProduct(Tail(jokers))

\* chips, mult and xMult (as numerator and denominator) that the scoring
\* cards and the jokers add up to, each joker counted as the claim says
ExpectedTotals(cards, state) ==
    With(get_hand_type(cards).hand_type, LAMBDA t :
    With(ScoringOf(cards), LAMBDA sc :
    With(Contributing(state.jokers, cards, t, state), LAMBDA active :
        LET L == LevelOf(state, t)
            poly == WithEdition(sc, "POLYCHROME") + JokersWithEdition(state.jokers, "POLYCHROME")
        IN  [chips |-> base_chips(t) + (L - 1) * level_bonus(t) + CardChips(sc)
                        + SumSeq(List([i \in 1..Len(active) |-> active[i].effect.flat_chips]))
                        + 50 * JokersWithEdition(state.jokers, "FOIL"),
             mult |-> base_mult(t) + (L - 1) + 4 * WithEnhancement(sc, "MULT")
                        + 10 * WithEdition(sc, "HOLOGRAPHIC")
                        + SumSeq(List([i \in 1..Len(active) |-> active[i].effect.flat_mult]))
                        + 10 * JokersWithEdition(state.jokers, "HOLOGRAPHIC"),
             num |-> Pow(2, WithEnhancement(sc, "GLASS")) * Pow(3, poly)
                        * MultiplierProduct(active),
             den |-> Pow(2, poly)])))

\* C13: each held joker adds its flat chips, flat mult and multiplier
\* exactly when it has no condition or its condition, read by the table of
\* ten names, holds; its own edition bonus (Foil +50 chips, Holographic +10
\* mult, Polychrome x1.5) is applied whether or not the condition held.
C13_JokerContributions ==
    Returns(<<"calculate_score">>) =>
        \A e \in {ExpectedTotals(played, gs.caller)} :
            /\ ret.value.chips = e.chips
            /\ ret.value.score = (e.chips * e.mult * e.num) \div e.den
            /\ ret.value.mult = (e.mult * e.num) \div e.den

\* a pair of two cards with Half Joker, whose condition holds, and a
\* Holographic Zany Joker, whose condition does not: +20 and +10, not +12
C13_Witness ==
    /\ Returns(<<"calculate_score">>)
    /\ Len(gs.caller.jokers) = 2
    /\ gs.caller.jokers[1].effect.conditional = "hand_size_lte_3"
    /\ gs.caller.jokers[2].effect.conditional = "three_of_a_kind"
    /\ gs.caller.jokers[2].edition = "HOLOGRAPHIC"
    /\ ret.value.hand_type = "PAIR"
    /\ Len(played) = 2
    /\ WithEdition(played, "POLYCHROME") + WithEnhancement(played, "GLASS") = 0
    /\ ret.value.mult = level_mult(gs.caller, "PAIR") + 20 + 10
                            + 4 * WithEnhancement(played, "MULT")
                            + 10 * WithEdition(played, "HOLOGRAPHIC")

\* the condition names _check_condition knows
RecognisedConditions ==
    {"pair", "two_pair", "three_of_a_kind", "straight", "flush", "full_house",
     "four_of_a_kind", "hand_size_lte_3", "discards_0", "all_spades_clubs"}

\* a list without its i-th element
RemoveAt(s, i) == SubSeq(s, 1, i - 1) \o SubSeq(s, i + 1, Len(s))

\* the jokers created by create_joker from a name absent from the catalog
UnknownNamed(jokers) ==
    {i \in 1..Len(jokers) : /\ jokers[i].name \notin DOMAIN JOKER_DATABASE
                             /\ jokers[i] = create_joker(jokers[i].name, "NONE")}

\* the jokers with a condition name that is not recognised
UnknownConditioned(jokers) ==
    {i \in 1..Len(jokers) : /\ jokers[i].effect.conditional # ""
                             /\ jokers[i].effect.conditional \notin RecognisedConditions}

\* C14: unknown catalog entries never raise and never change a score: with
\* a joker created by create_joker from a name absent from JOKER_DATABASE
\* (edition None) calculate_score equals the score without that joker, and
\* a joker whose non-empty condition name is not one of the ten recognised
\* names adds none of its flat chips, flat mult or multiplier: the score is
\* that of a joker of the same edition with no effect.
C14_UnknownEntriesAreNoOps ==
    pc = "idle" /\ call = <<"calculate_score">> =>
        /\ ~ret.raised
        /\ \A i \in UnknownNamed(gs.caller.jokers) :
              ret.value = calculate_score(played,
                            [gs.caller EXCEPT !.jokers = RemoveAt(@, i)])
        /\ \A i \in UnknownConditioned(gs.caller.jokers) :
              ret.value = calculate_score(played,
                            [gs.caller EXCEPT !.jokers[i].effect = NoEffect])

\* a pair scored with Sly Joker and The Duo, which contribute, next to a
\* joker of an unknown name and a joker with an unknown condition
C14_Witness ==
    /\ Returns(<<"calculate_score">>)
    /\ UnknownNamed(gs.caller.jokers) = {2}
    /\ UnknownConditioned(gs.caller.jokers) = {3}
    /\ gs.caller.jokers[3].effect.flat_mult > 0
    /\ ret.value.hand_type = "PAIR"
    /\ ret.value.score > calculate_score(played, [gs.caller EXCEPT !.jokers = <<>>]).score

\* the played cards are a Pair and the only joker held is Jolly Joker
PairWithJollyJoker ==
    /\ Returns(<<"calculate_score">>)
    /\ gs.caller.jokers = <<create_joker("Jolly Joker", "NONE")>>
    /\ ret.value.hand_type = "PAIR"

\* the same state without jokers
WithoutJokers(state) == [state EXCEPT !.jokers = <<>>]

\* C15: for played cards classified as Pair, with any enhancements and
\* editions, adding Jolly Joker raises the final score by exactly 8 times
\* the chips of the no-joker result and leaves the chips unchanged.
C15_JollyAddsEightTimesChips ==
    PairWithJollyJoker =>
        \A base \in {calculate_score(played, WithoutJokers(gs.caller))} :
            /\ ret.value.chips = base.chips
            /\ ret.value.score = base.score + 8 * base.chips

\* C15, amended: Jolly Joker leaves the chips unchanged and adds 8 to the
\* mult before the multipliers of the scoring cards are applied, so the
\* score becomes floor(chips * (mult + 8) * xMult); the increase is exactly
\* 8 times the chips when no scoring card is Glass or Polychrome.
C15_JollyAddsEightToMult ==
    PairWithJollyJoker =>
        \A base \in {calculate_score(played, WithoutJokers(gs.caller))} :
        \A e \in {ExpectedTotals(played, WithoutJokers(gs.caller))} :
            /\ ret.value.chips = base.chips
            /\ ret.value.score = (base.chips * (e.mult + 8) * e.num) \div e.den
            /\ e.num = e.den => ret.value.score = base.score + 8 * base.chips

\* a levelled-up pair with one Polychrome scoring card: the increase is
\* 12 times the chips, and the product is rounded down
C15_Witness ==
    /\ PairWithJollyJoker
    /\ WithEdition(ScoringOf(played), "POLYCHROME") = 1
    /\ WithEnhancement(ScoringOf(played), "GLASS") = 0
    /\ LevelOf(gs.caller, "PAIR") > 1
    /\ ret.value.score =
            calculate_score(played, WithoutJokers(gs.caller)).score + 12 * ret.value.chips

-----------------------------------------------------------------------------
(* The demo hand, checked under SpecPlay *)

\* AS AH KS KH QD 7C 3S 2H
DemoHand ==
    << Plain(14, "S"), Plain(14, "H"), Plain(13, "S"), Plain(13, "H"),
       Plain(12, "D"), Plain(7, "C"), Plain(3, "S"), Plain(2, "H") >>

\* find_best_play has returned on the demo hand, no jokers, every level 1
BestPlayOfDemoHand ==
    /\ Returns(<<"find_best_play">>)
    /\ gs.caller.hand = DemoHand
    /\ gs.caller.jokers = <<>>
    /\ gs.caller.hand_levels = DefaultLevels

\* C16: for the hand AS AH KS KH QD 7C 3S 2H, no jokers, every level 1,
\* find_best_play returns exactly AS AH KS KH as TwoPair with chips 62,
\* mult 2 and score 124, and no subset of 1 to 5 cards scores more.
C16_DemoHandBestPlay ==
    BestPlayOfDemoHand =>
        /\ ret.value.action_type = "PLAY"
        /\ ret.value.idx = <<1, 2, 3, 4>>
        /\ ret.value.cards = <<Plain(14, "S"), Plain(14, "H"), Plain(13, "S"), Plain(13, "H")>>
        /\ ret.value.hand_type = "TWO_PAIR"
        /\ ret.value.reasoning = <<62, 2>>
        /\ ret.value.expected_score = 124
        /\ \A subset \in PlaySubsets(Len(DemoHand)) : ScoreOf(gs.caller, subset) <= 124

\* the call has returned on the eight cards
C16_Witness ==
    /\ BestPlayOfDemoHand
    /\ Len(gs.caller.hand) = 8
    /\ ret.value.expected_score = 124

-----------------------------------------------------------------------------
(* Monotonicity of calculate_score, checked under SpecScore *)

\* the play with the edition, the enhancement of its i-th card changed
WithEditionAt(cards, i, ed) == [cards EXCEPT ![i].edition = ed]
WithEnhancementAt(cards, i, enh) == [cards EXCEPT ![i].enhancement = enh]

\* the category and the scoring cards are the same in both plays
SameCategory(cards, changed) ==
    \A a \in {get_hand_type(cards)} : \A b \in {get_hand_type(changed)} :
        a.hand_type = b.hand_type /\ a.scoring = b.scoring

\* the change does not lower the final score
NotLower(changed) ==
    SameCategory(played, changed) =>
        calculate_score(changed, gs.caller).score >= ret.value.score

\* C17: changing one scoring card's edition to Holographic or its
\* enhancement to Mult, with the category, the scoring cards and the jokers
\* otherwise the same, never yields a lower final score.
C17_ChangeNeverLowers ==
    Returns(<<"calculate_score">>) =>
        \A i \in Range(ret.value.scoring) :
            /\ NotLower(WithEditionAt(played, i, "HOLOGRAPHIC"))
            /\ NotLower(WithEnhancementAt(played, i, "MULT"))

\* C17, amended: adding the Holographic edition to a scoring card that has
\* no edition, or the Mult enhancement to a scoring card that has no
\* enhancement, with the category, the scoring cards and the jokers the
\* same, never yields a lower final score.
C17_AddingNeverLowers ==
    Returns(<<"calculate_score">>) =>
        \A i \in Range(ret.value.scoring) :
            /\ played[i].edition = "NONE" =>
                    NotLower(WithEditionAt(played, i, "HOLOGRAPHIC"))
            /\ played[i].enhancement = "NONE" =>
                    NotLower(WithEnhancementAt(played, i, "MULT"))

\* with jokers held, a scoring card without enhancement next to a scoring
\* card with one: making it a Mult card keeps the category and raises the
\* score
C17_Witness ==
    /\ Returns(<<"calculate_score">>)
    /\ gs.caller.jokers # <<>>
    /\ \E i \in Range(ret.value.scoring) : \E k \in Range(ret.value.scoring) :
            /\ played[i].enhancement = "NONE"
            /\ played[k].edition = "HOLOGRAPHIC"
            /\ SameCategory(played, WithEnhancementAt(played, i, "MULT"))
            /\ calculate_score(WithEnhancementAt(played, i, "MULT"), gs.caller).score
                    > ret.value.score

-----------------------------------------------------------------------------
(* SpecRecommend: Recommender.get_recommendation on one GameState *)

InitRecommend == Init

NextRecommend ==
    \/ RecStart
    \/ StepDiscard
    \/ StepRaise
    \/ StepPlay
    \/ RecFinish

SpecRecommend == InitRecommend /\ [][NextRecommend]_vars

\* get_recommendation has ended, by a return or by an exception
RecommendationEnded == pc = "idle" /\ call = <<"get_recommendation">>

\* C18: for every GameState whose hand is empty, whatever its
\* hands_remaining, discards_remaining, target, current_score and jokers,
\* get_recommendation does not raise and returns as immediate action a
\* PLAY action with an empty card list and expected score 0.
C18_EmptyHandRecommendation ==
    RecommendationEnded /\ Len(gs.caller.hand) = 0 =>
        /\ ~ret.raised
        /\ ret.value.immediate.action_type = "PLAY"
        /\ ret.value.immediate.cards = <<>>
        /\ ret.value.immediate.expected_score = 0

\* an empty hand with jokers, discards left and no hand left to play: the
\* strategy has no action and the immediate action is that of
\* find_best_play
C18_Witness ==
    /\ RecommendationEnded
    /\ Len(gs.caller.hand) = 0
    /\ gs.caller.jokers # <<>>
    /\ gs.caller.discards_remaining > 0
    /\ gs.caller.hands_remaining = 0
    /\ gs.caller.current_score < gs.caller.target_score
    /\ ~ret.raised
    /\ ret.value.strategy.actions = <<>>
    /\ ret.value.immediate.action_type = "PLAY"

-----------------------------------------------------------------------------
(* Properties of find_best_discard, checked under Spec *)

\* find_best_discard has ended, by a return or by an exception
DiscardEnded == pc = "idle" /\ call = <<"find_best_discard">>

\* a DISCARD action of at most 5 distinct cards of the hand
WellFormedDiscard(action, hand) ==
    /\ action.action_type = "DISCARD"
    /\ Len(action.idx) <= 5
    /\ \A k \in 1..Len(action.idx) : action.idx[k] \in 1..Len(hand)
    /\ \A j, k \in 1..Len(action.idx) : j # k => action.idx[j] # action.idx[k]
    /\ action.cards = At(hand, action.idx)

\* C19: find_best_discard always returns a DISCARD action whose card list
\* has at most 5 cards, each a distinct card of the current hand, and whose
\* card list is empty whenever discards_remaining = 0 or the hand is empty.
C19_DiscardAlwaysWellFormed ==
    DiscardEnded =>
        /\ ~ret.raised
        /\ WellFormedDiscard(ret.value, gs.caller.hand)
        /\ (gs.caller.discards_remaining = 0 \/ Len(gs.caller.hand) = 0) =>
                ret.value.cards = <<>>

\* C20: for every GameState with discards remaining, no card returned by
\* find_best_discard is one of the cards selected by find_best_play for
\* the same state.
C20_BestPlayCardsAreKept ==
    Returns(<<"find_best_discard">>) /\ gs.caller.discards_remaining > 0 =>
        Range(ret.value.idx) \cap Range(find_best_play(gs.caller).idx) = {}

-----------------------------------------------------------------------------
(* SpecPotential: analyze_potential_hands on hands kept from a deal *)

\* the hands of at most MaxDealt cards kept, in order, from each deal
DealtHands ==
    UNION {{At(Decks[d], s) : s \in UNION {Increasing(k, 1, Len(Decks[d])) : k \in 0..MaxDealt}} :
              d \in 1..Len(Decks)}

PotentialStates ==
    {GameState(hand, jokers, hand_levels, 4, 3, 0, 300) :
        hand \in DealtHands,
        jokers \in StrategyJokers,
        hand_levels \in {DefaultLevels, DemoLevels}}

InitPotential ==
    /\ played = <<>>
    /\ gs \in {[caller |-> state, sim |-> NoState] : state \in PotentialStates}
    /\ InitIdle

NextPotential == AnalyzePotentialHands

SpecPotential == InitPotential /\ [][NextPotential]_vars

\* the candidates of a category in a returned list
OfCategory(potentials, t) == {k \in 1..Len(potentials) : potentials[k].hand_type = t}

\* expected_score * probability of a candidate
PotentialValue(p) == Rat(p.expected_score * p.probability.n, p.probability.d)

\* C21: with no jokers analyze_potential_hands returns at most one
\* PotentialHand per hand category, sorted in non-increasing order of
\* expected_score * probability.
C21_OneCandidatePerCategory ==
    Returns(<<"analyze_potential_hands">>) /\ gs.caller.jokers = <<>> =>
        /\ \A t \in HandType : Cardinality(OfCategory(ret.value, t)) <= 1
        /\ \A k \in 1..(Len(ret.value) - 1) :
                RatLeq(PotentialValue(ret.value[k + 1]), PotentialValue(ret.value[k]))

\* C22: every Flush candidate returned by analyze_potential_hands has
\* cards_needed equal to 1 or 2, and is never proposed when the hand holds
\* 5 or more cards of that suit.
C22_FlushNeedsOneOrTwo ==
    Returns(<<"analyze_potential_hands">>) =>
        \A k \in OfCategory(ret.value, "FLUSH") :
            /\ ret.value[k].cards_needed \in {1, 2}
            /\ Len(ret.value[k].cards_to_keep) < 5

\* C29: every PotentialHand returned by analyze_potential_hands has
\* cards_needed >= 0 and a probability in the closed interval [0, 1].
C29_PotentialWithinRange ==
    Returns(<<"analyze_potential_hands">>) =>
        \A k \in 1..Len(ret.value) :
            /\ ret.value[k].cards_needed >= 0
            /\ ret.value[k].probability.n >= 0
            /\ ret.value[k].probability.n <= ret.value[k].probability.d

-----------------------------------------------------------------------------
(* SpecParse: parse_card on short tokens, Card.rank_name *)

LowerCase == <<"a", "b", "c", "d", "e", "f", "g", "h", "i", "j", "k", "l", "m",
               "n", "o", "p", "q", "r", "s", "t", "u", "v", "w", "x", "y", "z">>
UpperCase == <<"A", "B", "C", "D", "E", "F", "G", "H", "I", "J", "K", "L", "M",
               "N", "O", "P", "Q", "R", "S", "T", "U", "V", "W", "X", "Y", "Z">>
Digits == <<"0", "1", "2", "3", "4", "5", "6", "7", "8", "9">>

\* str.upper(), one character at a time
upper(s) ==
    List([k \in 1..Len(s) |->
            IF \E n \in 1..Len(LowerCase) : LowerCase[n] = s[k]
            THEN UpperCase[CHOOSE n \in 1..Len(LowerCase) : LowerCase[n] = s[k]]
            ELSE s[k]])

\* str.strip(): blanks are dropped at both ends, never inside
RECURSIVE strip(_)
strip(s) ==
    IF s = <<>> THEN s
    ELSE IF Head(s) = " " THEN strip(Tail(s))
    ELSE IF s[Len(s)] = " " THEN strip(SubSeq(s, 1, Len(s) - 1))
    ELSE s

\* str.isdigit(): not empty and every character a digit
isdigit(s) == s # <<>> /\ \A k \in 1..Len(s) : \E n \in 1..Len(Digits) : Digits[n] = s[k]

\* int(s) of a string of digits
RECURSIVE int(_)
int(s) ==
    IF s = <<>> THEN 0
    ELSE 10 * int(SubSeq(s, 1, Len(s) - 1))
            + (CHOOSE n \in 0..9 : Digits[n + 1] = s[Len(s)])

\* str(n) of a natural number
RECURSIVE str(_)
str(n) == IF n < 10 THEN <<Digits[n + 1]>> ELSE str(n \div 10) \o <<Digits[(n % 10) + 1]>>

\* the keys of rank_map in parse_card
rank_map_keys == {<<"A">>, <<"K">>, <<"Q">>, <<"J">>, <<"T">>, <<"1", "0">>}

rank_map(rank_str) ==
    CASE rank_str = <<"A">> -> 14
      [] rank_str = <<"K">> -> 13
      [] rank_str = <<"Q">> -> 12
      [] rank_str = <<"J">> -> 11
      [] rank_str = <<"T">> -> 10
      [] rank_str = <<"1", "0">> -> 10

\* Card.rank_name rendering 10 as T
rank_name_ten_as_T(card) ==
    CASE card.rank = 10 -> <<"T">>
      [] card.rank = 11 -> <<"J">>
      [] card.rank = 12 -> <<"Q">>
      [] card.rank = 13 -> <<"K">>
      [] card.rank = 14 -> <<"A">>
      [] OTHER -> str(card.rank)

\* Card.rank_name
rank_name(card) ==
    CASE card.rank = 11 -> <<"J">>
      [] card.rank = 12 -> <<"Q">>
      [] card.rank = 13 -> <<"K">>
      [] card.rank = 14 -> <<"A">>
      [] OTHER -> str(card.rank)

\* parse_card(card_str): the subscript [-1] of an empty string raises
\* IndexError, an unknown suit or rank raises ValueError
parse_card(card_str) ==
    With(strip(upper(card_str)), LAMBDA s :
        IF s = <<>> THEN Raised
        ELSE LET suit_char == s[Len(s)]
                 rank_str  == SubSeq(s, 1, Len(s) - 1)
             IN  IF suit_char \notin Suit THEN Raised
                 ELSE IF rank_str \in rank_map_keys
                      THEN Returned(Plain(rank_map(rank_str), suit_char))
                 ELSE IF isdigit(rank_str) /\ 2 <= int(rank_str) /\ int(rank_str) <= 10
                      THEN Returned(Plain(int(rank_str), suit_char))
                 ELSE Raised)

\* parse_card(played); played holds the token, a sequence of characters
ParseCard ==
    /\ Idle
    /\ call' = <<"parse_card">>
    /\ ret' = parse_card(played)
    /\ UNCHANGED <<played, gs, pc, simRef, strategy, total_score>>

\* the characters tokens are written with
TokenChars ==
    {"A", "K", "Q", "J", "T", "a", "t", "H", "D", "C", "S", "h", "s",
     "0", "1", "2", "7", "9", "X", " "}

RECURSIVE TokensOfLen(_)
TokensOfLen(n) ==
    IF n = 0 THEN {<<>>}
    ELSE {t \o <<c>> : t \in TokensOfLen(n - 1), c \in TokenChars}

Tokens == UNION {TokensOfLen(n) : n \in 0..MaxToken}

InitParse ==
    /\ played \in Tokens
    /\ gs = [caller |-> DefaultState, sim |-> NoState]
    /\ InitIdle

NextParse == ParseCard

SpecParse == InitParse /\ [][NextParse]_vars

ParseEnded == pc = "idle" /\ call = <<"parse_card">>

\* the rank a rank symbol of the grammar stands for: A, K, Q, J, T, 10 or
\* one digit 2..9
GrammarRanks ==
    {<<<<"A">>, 14>>, <<<<"K">>, 13>>, <<<<"Q">>, 12>>, <<<<"J">>, 11>>,
     <<<<"T">>, 10>>, <<<<"1", "0">>, 10>>}
        \cup {<<<<Digits[r + 1]>>, r>> : r \in 2..9}

\* the token is a rank symbol of the grammar followed by a suit letter
InGrammar(token) ==
    /\ token # <<>>
    /\ upper(<<token[Len(token)]>>)[1] \in Suit
    /\ \E g \in GrammarRanks : g[1] = upper(SubSeq(token, 1, Len(token) - 1))

GrammarCard(token) ==
    Plain((CHOOSE g \in GrammarRanks : g[1] = upper(SubSeq(token, 1, Len(token) - 1)))[2],
          upper(<<token[Len(token)]>>)[1])

\* C23: parse_card returns a Card only for a token whose last character is
\* H, D, C or S in either case and whose remainder is A, K, Q, J, T, 10 or a
\* digit 2..9, the card then having exactly that rank and suit and no
\* enhancement; every other token raises an error
C23_OnlyGrammarTokensParse ==
    ParseEnded =>
        IF InGrammar(played)
        THEN ret = Returned(GrammarCard(played))
        ELSE ret.raised

\* the text of a card: its rank_name followed by its suit letter
Render(card) == rank_name(card) \o <<card.suit>>

\* written the way Render writes: no blank, ten as 10, no leading zero
Canonical(token) ==
    /\ \A k \in 1..Len(token) : token[k] # " "
    /\ upper(SubSeq(token, 1, Len(token) - 1)) # <<"T">>
    /\ token[1] # "0"

\* C24 as stated: every accepted token is given back by rendering the
\* parsed card, up to letter case
C24_RoundTrip ==
    Returns(<<"parse_card">>) => Render(ret.value) = upper(played)

\* C24: an accepted token is given back by rendering the parsed card, up
\* to letter case, exactly when it is written with no blank, no leading
\* zero and ten as 10; the rendering of any accepted token parses to the
\* same card
C24_CanonicalRoundTrip ==
    Returns(<<"parse_card">>) =>
        /\ Canonical(played) <=> Render(ret.value) = upper(played)
        /\ parse_card(Render(ret.value)) = ret

C24_Witness ==
    /\ Returns(<<"parse_card">>)
    /\ played = <<"1", "0", "h">>
    /\ Render(ret.value) = <<"1", "0", "H">>

-----------------------------------------------------------------------------
(* Properties of the loop of calculate_strategy, checked under Spec and SpecLoop *)

\* the step stays in the loop: one iteration of the while
Iteration == pc = "loop" /\ pc' = "loop"

\* the step appends an action of the given type to the plan
Records(type) ==
    /\ Len(strategy'.actions) = Len(strategy.actions) + 1
    /\ strategy'.actions[Len(strategy'.actions)].action_type = type

\* the hand without the cards at the given positions
WithoutPositions(hand, idx) ==
    SelectSeq(List([k \in 1..Len(hand) |-> IF \E j \in 1..Len(idx) : idx[j] = k THEN NoResult ELSE hand[k]]),
              LAMBDA c : c # NoResult)

\* C25: an iteration that records a DISCARD takes the discarded cards out
\* of the simulated hand and adds none, takes exactly 1 from the
\* simulated discards_remaining and leaves the simulated hands_remaining,
\* the running total and hands_needed unchanged; no iteration makes the
\* simulated hand longer
C25_DiscardStep ==
    [][Iteration =>
        /\ Len(gs'[simRef].hand) <= Len(gs[simRef].hand)
        /\ Records("DISCARD") =>
            \A discard \in {strategy'.actions[Len(strategy'.actions)]} :
                /\ Len(discard.cards) > 0
                /\ Len(gs'[simRef].hand) = Len(gs[simRef].hand) - Len(discard.cards)
                /\ gs'[simRef].hand = WithoutPositions(gs[simRef].hand, discard.idx)
                /\ gs'[simRef].discards_remaining = gs[simRef].discards_remaining - 1
                /\ gs'[simRef].hands_remaining = gs[simRef].hands_remaining
                /\ total_score' = total_score
                /\ strategy'.hands_needed = strategy.hands_needed
                /\ strategy'.discards_used = strategy.discards_used + 1]_vars

\* the loop has just recorded a discard
C25_Witness ==
    /\ pc = "loop"
    /\ Len(strategy.actions) = 1
    /\ strategy.actions[1].action_type = "DISCARD"
    /\ SimState.discards_remaining = gs.caller.discards_remaining - 1
    /\ SimState.hands_remaining = gs.caller.hands_remaining
    /\ Len(SimState.hand) < Len(gs.caller.hand)
    /\ total_score = gs.caller.current_score

\* C26: a DISCARD is recorded at an iteration only if the simulated
\* discards_remaining > 0, the simulated hands_remaining > 1 and the discard
\* heuristic value of the simulated hand is above 30% of the best play's
\* score; the last action of a non-empty strategy returned is a PLAY
C26_DiscardOnlyWhenWorthIt ==
    /\ [][Records("DISCARD") =>
            /\ gs[simRef].discards_remaining > 0
            /\ gs[simRef].hands_remaining > 1
            /\ 10 * estimate_discard_value(gs[simRef])
                    > 3 * find_best_play(gs[simRef]).expected_score]_vars
    /\ [](StrategyReturned /\ Len(ret.value.actions) > 0 =>
            ret.value.actions[Len(ret.value.actions)].action_type = "PLAY")

\* a plan returned that discards first and plays last
C26_Witness ==
    /\ StrategyReturned
    /\ Len(ret.value.actions) >= 2
    /\ ret.value.actions[1].action_type = "DISCARD"
    /\ ret.value.actions[Len(ret.value.actions)].action_type = "PLAY"

\* SpecLoop: calculate_strategy alone, its loop running to the end
NextLoop == CalcStart \/ StepDiscard \/ StepRaise \/ StepPlay \/ Finish

\* an empty hand, a hand that discards its odd card, a hand that draws to a flush
LoopHands == {<<>>, PySlice(Decks[1], 5), PySlice(Decks[2], 4)}

LoopStates ==
    {GameState(hand, jokers, DefaultLevels, h, d, sp[1], sp[2]) :
        hand \in LoopHands,
        jokers \in StrategyJokers,
        h \in 0..MaxHandsRemaining,
        d \in 0..MaxDiscardsRemaining,
        sp \in {<<0, 150>>, <<300, 300>>}}

InitLoop ==
    /\ played = <<>>
    /\ gs \in {[caller |-> state, sim |-> NoState] : state \in LoopStates}
    /\ InitIdle

\* the body of the while is sequential code: an iteration that can run does
SpecLoop == InitLoop /\ [][NextLoop]_vars /\ WF_vars(Finish \/ StepPlay \/ StepDiscard \/ StepRaise)

\* C28: the loop terminates; every iteration takes 1 from the simulated
\* discards_remaining or from the simulated hands_remaining, so a plan
\* returned for H hands and D discards has at most H + D actions, hands_needed
\* <= H and discards_used <= D, and is never the plan that reaches the target
\* with more hands than available
C28_LoopTerminates ==
    /\ (pc = "loop") ~> (pc = "idle")
    /\ [][Iteration =>
            \/ /\ gs'[simRef].discards_remaining = gs[simRef].discards_remaining - 1
               /\ gs'[simRef].hands_remaining = gs[simRef].hands_remaining
            \/ /\ gs'[simRef].hands_remaining = gs[simRef].hands_remaining - 1
               /\ gs'[simRef].discards_remaining = gs[simRef].discards_remaining]_vars
    /\ [](StrategyReturned =>
            /\ Len(ret.value.actions) <= gs.caller.hands_remaining + gs.caller.discards_remaining
            /\ ret.value.hands_needed <= gs.caller.hands_remaining
            /\ ret.value.discards_used <= gs.caller.discards_remaining
            /\ ~(/\ ret.value.total_expected_score >= gs.caller.target_score
                 /\ ret.value.hands_needed > gs.caller.hands_remaining)
            /\ \A k \in 1..Len(ret.value.notes) : ret.value.notes[k] # "No hay suficientes manos")

\* a plan returned that used every hand and every discard it was given
C28_Witness ==
    /\ StrategyReturned
    /\ gs.caller.hands_remaining >= 2
    /\ gs.caller.discards_remaining > 0
    /\ ret.value.hands_needed = gs.caller.hands_remaining
    /\ ret.value.discards_used = gs.caller.discards_remaining

-----------------------------------------------------------------------------
(* SpecVision: the stable detection of BalatroVisionSystem *)

\* BalatroVisionSystem.EXPECTED_CARDS
EXPECTED_CARDS == 8

\* self._required_confirmations
required_confirmations == 3

\* Card.__str__: rank_name and the symbol of the suit, one symbol per suit
\* letter; the letter stands for the symbol
card_str(card) == rank_name(card) \o <<card.suit>>

\* set(str(c) for c in cards)
NameSet(cards) == {card_str(cards[i]) : i \in 1..Len(cards)}

\* ' '.join(sorted(str(c) for c in cards)): two such strings are equal
\* exactly when every name occurs as often in one list as in the other, so
\* the string is held as the set of (name, occurrences); "" is the empty set
hand_str(cards) ==
    {<<n, Cardinality({i \in 1..Len(cards) : card_str(cards[i]) = n})>> : n \in NameSet(cards)}

\* Optional[List[Card]]
NoHand == [none |-> TRUE, cards |-> <<>>]
SomeHand(cards) == [none |-> FALSE, cards |-> cards]

\* BalatroVisionSystem.__init__: the fields of the stable detection
NewVision ==
    [stable_hand |-> NoHand,
     stable_hand_str |-> {},
     detection_locked |-> FALSE,
     lock_count |-> 0]

\* _unlock_detection
unlock_detection(self) ==
    [self EXCEPT !.detection_locked = FALSE,
                 !.stable_hand = NoHand,
                 !.stable_hand_str = {},
                 !.lock_count = 0]

Abs(n) == IF n < 0 THEN 0 - n ELSE n

\* a change test that lets a hand with four names in common pass
hand_changed_below_four(stable_hand, current_cards) ==
    \/ Cardinality(NameSet(stable_hand) \cap NameSet(current_cards)) < 4
    \/ Abs(Len(current_cards) - Len(stable_hand)) >= 3

\* common < 5 or abs(num_cards - len(self._stable_hand)) >= 3
hand_changed(stable_hand, current_cards) ==
    \/ Cardinality(NameSet(stable_hand) \cap NameSet(current_cards)) < 5
    \/ Abs(Len(current_cards) - Len(stable_hand)) >= 3

\* the GameState handed back: 4 hands, 3 discards, a blind of 300
Detected(hand) == GameState(hand, <<>>, DefaultLevels, 4, 3, 0, 300)

\* the second half of _process_stable_detection: "if not self._detection_locked"
\* and the state built from the best detection
lock_or_count(self, current_cards) ==
    LET counted ==
            IF self.detection_locked THEN self
            ELSE IF Len(current_cards) = EXPECTED_CARDS
                 THEN IF hand_str(current_cards) = self.stable_hand_str
                      THEN IF self.lock_count + 1 >= required_confirmations
                           THEN [self EXCEPT !.lock_count = @ + 1,
                                             !.stable_hand = SomeHand(current_cards),
                                             !.detection_locked = TRUE]
                           ELSE [self EXCEPT !.lock_count = @ + 1]
                      ELSE [self EXCEPT !.stable_hand_str = hand_str(current_cards),
                                        !.lock_count = 1]
                 ELSE [self EXCEPT !.lock_count = 0, !.stable_hand_str = {}]
    IN  [self |-> counted,
         state |-> IF counted.detection_locked /\ ~counted.stable_hand.none
                              /\ counted.stable_hand.cards # <<>>
                   THEN Detected(counted.stable_hand.cards)
                   ELSE Detected(current_cards)]

\* _process_stable_detection(current_cards, current_hand_str, img_bgr): the
\* object after the call and the GameState returned
process_stable_detection(self, current_cards) ==
    IF self.detection_locked /\ ~self.stable_hand.none /\ self.stable_hand.cards # <<>>
    THEN IF hand_changed(self.stable_hand.cards, current_cards)
         THEN lock_or_count(unlock_detection(self), current_cards)
         ELSE [self |-> self, state |-> Detected(self.stable_hand.cards)]
    ELSE lock_or_count(self, current_cards)

\* the hand cut after its first n cards and filled up from another deck
Refilled(hand, n, other) == PySlice(hand, n) \o PySlice(other, Len(hand) - n)

\* what the detector can hand over: a hand of 8, the same hand in another
\* order, the hand with 3 and with 4 cards replaced, with 6 and 5 cards left,
\* with 2 and 3 cards too many, a hand of 8 with 4 names, another hand, nothing
Captures ==
    {Decks[1], Reverse(Decks[1]),
     Refilled(Decks[1], 5, Decks[2]), Refilled(Decks[1], 4, Decks[2]),
     PySlice(Decks[1], 6), PySlice(Decks[1], 5),
     Decks[1] \o PySlice(Decks[2], 2), Decks[1] \o PySlice(Decks[2], 3),
     PySlice(Decks[1], 4) \o PySlice(Decks[1], 4),
     Decks[2], <<>>}

Capture(cards) == [op |-> "capture", cards |-> cards]
Unlock == [op |-> "force_unlock", cards |-> <<>>]

\* capture_and_analyze(stable_mode=True) on one detection; played holds the
\* calls made so far
ProcessStableDetection ==
    /\ Idle
    /\ Len(played) < MaxCaptures
    /\ \E current_cards \in Captures :
         \E result \in {process_stable_detection(gs.vision, current_cards)} :
            /\ played' = Append(played, Capture(current_cards))
            /\ gs' = [gs EXCEPT !.vision = result.self]
            /\ ret' = Returned(result.state)
    /\ call' = <<"capture_and_analyze">>
    /\ UNCHANGED <<pc, simRef, strategy, total_score>>

\* force_unlock()
ForceUnlock ==
    /\ Idle
    /\ Len(played) < MaxCaptures
    /\ played' = Append(played, Unlock)
    /\ gs' = [gs EXCEPT !.vision = unlock_detection(@)]
    /\ call' = <<"force_unlock">>
    /\ ret' = NoResult
    /\ UNCHANGED <<pc, simRef, strategy, total_score>>

InitVision ==
    /\ played = <<>>
    /\ gs = [vision |-> NewVision]
    /\ InitIdle

NextVision == ProcessStableDetection \/ ForceUnlock

SpecVision == InitVision /\ [][NextVision]_vars

\* the last n calls were captures of 8 cards showing one and the same hand
LastCapturesAgree(history, n) ==
    /\ Len(history) >= n
    /\ \A k \in (Len(history) - n + 1)..Len(history) :
        /\ history[k].op = "capture"
        /\ Len(history[k].cards) = 8
        /\ hand_str(history[k].cards) = hand_str(history[Len(history)].cards)

\* the cards of the capture the step is about
CapturedNow == played'[Len(played')].cards

\* the number of card names two detections share
InCommon(a, b) == Cardinality(NameSet(a) \cap NameSet(b))

CountDifference(a, b) == Abs(Len(a) - Len(b))

\* C27: the detection starts unlocked and becomes locked only at the third of
\* 3 consecutive captures of the same 8-card hand; while locked, a capture
\* sharing at least 5 card names with the stable hand and differing from it by
\* less than 3 cards returns the stable hand unchanged and stays locked; a
\* capture with fewer than 5 names in common or a difference of 3 or more
\* unlocks, forgets the stable hand and restarts the confirmation count (at 1
\* if it shows 8 cards, at 0 otherwise); force_unlock unlocks and resets the
\* count to 0
C27_StableDetection ==
    /\ (played = <<>> => ~gs.vision.detection_locked /\ gs.vision.lock_count = 0)
    /\ [][
          /\ (~gs.vision.detection_locked /\ gs'.vision.detection_locked) =>
                (/\ call' = <<"capture_and_analyze">>
                 /\ LastCapturesAgree(played', 3)
                 /\ gs'.vision.stable_hand = SomeHand(CapturedNow)
                 /\ ret'.value.hand = CapturedNow)
          /\ (gs.vision.detection_locked /\ call' = <<"capture_and_analyze">>) =>
                (IF /\ InCommon(gs.vision.stable_hand.cards, CapturedNow) >= 5
                    /\ CountDifference(gs.vision.stable_hand.cards, CapturedNow) < 3
                 THEN /\ gs'.vision = gs.vision
                      /\ ret'.value.hand = gs.vision.stable_hand.cards
                 ELSE /\ ~gs'.vision.detection_locked
                      /\ gs'.vision.stable_hand = NoHand
                      /\ gs'.vision.lock_count = (IF Len(CapturedNow) = 8 THEN 1 ELSE 0)
                      /\ ret'.value.hand = CapturedNow)
          /\ (call' = <<"force_unlock">>) =>
                (/\ ~gs'.vision.detection_locked
                 /\ gs'.vision.lock_count = 0
                 /\ gs'.vision.stable_hand = NoHand)
       ]_vars

\* locked at the third capture of a hand, the fourth shows it with 3 cards
\* replaced and is answered with the stable hand
C27_Witness ==
    /\ Len(played) = 4
    /\ LastCapturesAgree(SubSeq(played, 1, 3), 3)
    /\ played[4] = Capture(Refilled(Decks[1], 5, Decks[2]))
    /\ gs.vision.detection_locked
    /\ ret.value.hand = played[3].cards
    /\ ret.value.hand # played[4].cards

-----------------------------------------------------------------------------
(* SpecTips: Recommender.get_quick_tips *)

\* GameState.score_needed: max(0, target_score - current_score)
score_needed(state) ==
    IF state.target_score - state.current_score > 0
    THEN state.target_score - state.current_score ELSE 0

\* one advisory string: what it says and the values written into it
Tip(kind, detail) == [kind |-> kind, detail |-> detail]

\* the tip about the target; best_play.hand_type is None on the placeholder
\* play of an empty hand, and None has no display_name
target_tip(state, best_play) ==
    IF best_play.expected_score >= score_needed(state)
    THEN IF best_play.hand_type = "None" THEN Raised
         ELSE Returned(Tip("Puedes ganar con una mano", <<best_play.hand_type>>))
    ELSE IF best_play.expected_score * state.hands_remaining >= score_needed(state)
    THEN IF state.hands_remaining = 0 THEN Raised
         ELSE Returned(Tip("Necesitas pts/mano", <<score_needed(state) \div state.hands_remaining>>))
    ELSE Returned(Tip("Dificil alcanzar el objetivo", <<>>))

\* Recommender.get_quick_tips() with current_state = state
get_quick_tips(state) ==
    LET resources ==
            (IF state.hands_remaining = 1 THEN <<Tip("Ultima mano", <<>>)>> ELSE <<>>)
                \o (IF state.discards_remaining = 0 THEN <<Tip("Sin descartes", <<>>)>> ELSE <<>>)
        jokers ==
            IF Len(state.jokers) > 0
            THEN <<Tip("Jokers activos",
                       List([k \in 1..Len(PySlice(state.jokers, 3)) |-> state.jokers[k].name]))>>
            ELSE <<>>
    IN  With(target_tip(state, find_best_play(state)), LAMBDA target :
            IF target.raised THEN Raised
            ELSE Returned(resources \o <<target.value>> \o jokers))

\* recommender.update_state(gs.caller); recommender.get_quick_tips()
GetQuickTips ==
    /\ Calls(<<"get_quick_tips">>)
    /\ call' = <<"get_quick_tips">>
    /\ ret' = get_quick_tips(gs.caller)
    /\ UNCHANGED <<played, gs, pc, simRef, strategy, total_score>>

\* no joker, two jokers, four jokers
TipJokers ==
    {<<>>,
     <<create_joker("Jolly Joker", "NONE"), create_joker("Joker", "NONE")>>,
     <<create_joker("Joker", "NONE"), create_joker("Jolly Joker", "NONE"),
       create_joker("Zany Joker", "NONE"), create_joker("Mad Joker", "NONE")>>}

\* an empty hand and hands cut from the decks; no hand left, one, more; the
\* target far, within reach of two hands, reached, passed
TipStates ==
    {GameState(hand, jokers, DefaultLevels, h, d, sp[1], sp[2]) :
        hand \in {<<>>, PySlice(Decks[1], 4), PySlice(Decks[2], 5), PySlice(Decks[4], 6)},
        jokers \in TipJokers,
        h \in 0..MaxHandsRemaining,
        d \in 0..MaxDiscardsRemaining,
        sp \in ScorePairs \cup {<<0, 200>>}}

InitTips ==
    /\ played = <<>>
    /\ gs \in {[caller |-> state, sim |-> NoState] : state \in TipStates}
    /\ InitIdle

NextTips == GetQuickTips

SpecTips == InitTips /\ [][NextTips]_vars

TipsEnded == pc = "idle" /\ call = <<"get_quick_tips">>

HasTip(tips, kind) == \E k \in 1..Len(tips) : tips[k].kind = kind

\* C30: get_quick_tips never raises, whatever the state (empty hand, no hand
\* left, target reached); the tips hold the last-hand tip exactly when
\* hands_remaining = 1, the no-discards tip exactly when discards_remaining
\* = 0, and name at most 3 jokers
C30_QuickTipsNeverRaise ==
    TipsEnded =>
        /\ ~ret.raised
        /\ HasTip(ret.value, "Ultima mano") <=> gs.caller.hands_remaining = 1
        /\ HasTip(ret.value, "Sin descartes") <=> gs.caller.discards_remaining = 0
        /\ \A k \in 1..Len(ret.value) :
                ret.value[k].kind = "Jokers activos" => Len(ret.value[k].detail) <= 3

=============================================================================
